---------------------------- MODULE Spec2Model ----------------------------
(***************************************************************************)
(* Model of the sqlexpr-rust expression engine: the recursive-descent      *)
(* parser of src/src/parser.rs over the token vector produced by           *)
(* Lexer::tokenize, and the tree-walking evaluator of src/src/evaluator.rs.*)
(*                                                                         *)
(* Conventions                                                             *)
(*  - A token vector is a sequence of token records ending with Eof, as    *)
(*    Lexer::tokenize builds it.  Parser.position is 0-based, as in the    *)
(*    source; tokens[position] is toks[position + 1] here.                 *)
(*  - Strings (string literals, LIKE patterns) are sequences of character  *)
(*    codes, compared lexicographically as Rust compares String.           *)
(*  - An f64 is modelled by the rational <<num, den>> (den > 0, lowest     *)
(*    terms) it denotes; the inputs drawn are dyadic, for which the f64    *)
(*    operations used here are exact.                                      *)
(*  - Every value record carries all payload fields, so that any two       *)
(*    values can be compared.                                              *)
(***************************************************************************)
EXTENDS Integers, Sequences, FiniteSets, TLC

VARIABLES
    tokens,        \* Parser.tokens: the token vector of the input string
    value_map,     \* the caller's bindings (evaluate's map argument)
    parse_result,  \* what parse(input) returned, NotCalled before the call
    eval_result,   \* what evaluate(input, map) returned, NotCalled before
    rendered       \* the text of the parsed AST and what parse returned on it

vars == <<tokens, value_map, parse_result, eval_result, rendered>>

(***************************************************************************)
(* f64 arithmetic on rationals                                             *)
(***************************************************************************)
Abs(n) == IF n < 0 THEN -n ELSE n

RECURSIVE Gcd(_, _)
Gcd(a, b) == IF b = 0 THEN a ELSE Gcd(b, a % b)

\* the f64 denoted by n/d, d # 0
F(n, d) ==
    LET g == Gcd(Abs(n), Abs(d))
        s == IF d < 0 THEN -1 ELSE 1
    IN  <<(s * n) \div g, (s * d) \div g>>

FZero == <<0, 1>>

\* `i as f64`
as_f64(i) == <<i, 1>>

FNeg(a) == <<-a[1], a[2]>>
FAdd(a, b) == F(a[1] * b[2] + b[1] * a[2], a[2] * b[2])
FSub(a, b) == F(a[1] * b[2] - b[1] * a[2], a[2] * b[2])
FMul(a, b) == F(a[1] * b[1], a[2] * b[2])
\* a division that drops the fraction of the quotient, as integer division does
FDiv_truncated(a, b) ==
    LET q == F(a[1] * b[2], a[2] * b[1])
    IN  <<IF q[1] >= 0 THEN q[1] \div q[2] ELSE -((-q[1]) \div q[2]), 1>>

FDiv(a, b) == F(a[1] * b[2], a[2] * b[1])
FLt(a, b) == a[1] * b[2] < b[1] * a[2]
FLe(a, b) == a[1] * b[2] <= b[1] * a[2]
FGt(a, b) == FLt(b, a)
FGe(a, b) == FLe(b, a)
FEq(a, b) == a[1] * b[2] = b[1] * a[2]

\* truncation toward zero of the rational n/d (d > 0)
TruncDiv(n, d) == IF n >= 0 THEN n \div d ELSE -((-n) \div d)

\* f64 `a % b` (fmod): a - trunc(a / b) * b, the sign of the dividend
FRem(a, b) ==
    LET q == FDiv(a, b)
        t == TruncDiv(q[1], q[2])
    IN  FSub(a, FMul(<<t, 1>>, b))

\* i64 `a % b`: remainder of truncated division, the sign of the dividend
IRem(a, b) == a - TruncDiv(IF b < 0 THEN -a ELSE a, Abs(b)) * b

(***************************************************************************)
(* Strings                                                                 *)
(***************************************************************************)
\* Rust's String ordering: lexicographic on the characters
RECURSIVE StrLt(_, _)
StrLt(a, b) ==
    IF b = <<>> THEN FALSE
    ELSE IF a = <<>> THEN TRUE
    ELSE IF a[1] # b[1] THEN a[1] < b[1]
    ELSE StrLt(Tail(a), Tail(b))

StrLe(a, b) == a = b \/ StrLt(a, b)
StrGt(a, b) == StrLt(b, a)
StrGe(a, b) == StrLe(b, a)

(***************************************************************************)
(* ValueLiteral (ast.rs), RuntimeValue and SubValue (evaluator.rs): the    *)
(* same five variants.  t is the variant, i / f / s / b its payload.       *)
(***************************************************************************)
Value(t, i, f, s, b) == [t |-> t, i |-> i, f |-> f, s |-> s, b |-> b]

Integer(n) == Value("Integer", n, FZero, <<>>, FALSE)
Float(q)   == Value("Float", 0, q, <<>>, FALSE)
String(s)  == Value("String", 0, FZero, s, FALSE)
Boolean(b) == Value("Boolean", 0, FZero, <<>>, b)
Null       == Value("Null", 0, FZero, <<>>, FALSE)

(***************************************************************************)
(* Token (lexer.rs)                                                        *)
(***************************************************************************)
Token(k, name, lit) == [k |-> k, name |-> name, lit |-> lit]

Keyword(k)        == Token(k, "", Null)
Identifier(name)  == Token("Identifier", name, Null)
StringLiteral(s)  == Token("StringLiteral", "", String(s))
IntegerLiteral(n) == Token("IntegerLiteral", "", Integer(n))
FloatLiteral(q)   == Token("FloatLiteral", "", Float(q))
Eof               == Keyword("Eof")

T_And == Keyword("And")
T_Or == Keyword("Or")
T_Not == Keyword("Not")
T_Between == Keyword("Between")
T_Like == Keyword("Like")
T_Escape == Keyword("Escape")
T_In == Keyword("In")
T_Is == Keyword("Is")
T_True == Keyword("True")
T_False == Keyword("False")
T_Null == Keyword("Null")
T_Equal == Keyword("Equal")
T_NotEqual == Keyword("NotEqual")
T_GreaterThan == Keyword("GreaterThan")
T_GreaterOrEqual == Keyword("GreaterOrEqual")
T_LessThan == Keyword("LessThan")
T_LessOrEqual == Keyword("LessOrEqual")
T_Plus == Keyword("Plus")
T_Minus == Keyword("Minus")
T_Star == Keyword("Star")
T_Slash == Keyword("Slash")
T_Percent == Keyword("Percent")
T_LeftParen == Keyword("LeftParen")
T_RightParen == Keyword("RightParen")
T_Comma == Keyword("Comma")

(***************************************************************************)
(* AST (ast.rs).  node is the variant; BooleanExpr::Literal and            *)
(* BooleanExpr::Variable are tagged BoolLiteral and BoolVariable to keep   *)
(* them apart from the ValueExpr variants of the same name.                *)
(***************************************************************************)
Or(l, r)         == [node |-> "Or", left |-> l, right |-> r]
And(l, r)        == [node |-> "And", left |-> l, right |-> r]
Not(e)           == [node |-> "Not", expr |-> e]
BoolLiteral(b)   == [node |-> "BoolLiteral", b |-> b]
BoolVariable(n)  == [node |-> "BoolVariable", name |-> n]
Relational(rel)  == [node |-> "Relational", rel |-> rel]

Equality(l, op, r)   == [node |-> "Equality", left |-> l, op |-> op, right |-> r]
Comparison(l, op, r) == [node |-> "Comparison", left |-> l, op |-> op, right |-> r]
\* escape: Option<String>, <<>> for None and <<s>> for Some(s)
Like(e, pattern, escape, negated) ==
    [node |-> "Like", expr |-> e, pattern |-> pattern, escape |-> escape,
     negated |-> negated]
Between(e, lower, upper, negated) ==
    [node |-> "Between", expr |-> e, lower |-> lower, upper |-> upper,
     negated |-> negated]
In(e, values, negated) ==
    [node |-> "In", expr |-> e, values |-> values, negated |-> negated]
IsNull(e, negated) == [node |-> "IsNull", expr |-> e, negated |-> negated]

Add(l, r)      == [node |-> "Add", left |-> l, right |-> r]
Subtract(l, r) == [node |-> "Subtract", left |-> l, right |-> r]
Multiply(l, r) == [node |-> "Multiply", left |-> l, right |-> r]
Divide(l, r)   == [node |-> "Divide", left |-> l, right |-> r]
Modulo(l, r)   == [node |-> "Modulo", left |-> l, right |-> r]
UnaryPlus(e)   == [node |-> "UnaryPlus", expr |-> e]
UnaryMinus(e)  == [node |-> "UnaryMinus", expr |-> e]
Literal(lit)   == [node |-> "Literal", lit |-> lit]
Variable(n)    == [node |-> "Variable", name |-> n]

(***************************************************************************)
(* ParseError and ParseResult (parser.rs).  A message is modelled by its   *)
(* description and by what else the format string embeds: the token        *)
(* position (-1 when the message has none) and the original input.         *)
(***************************************************************************)
ParseError(desc, position, with_input) ==
    [desc |-> desc, position |-> position, with_input |-> with_input]

NoError == ParseError("", -1, FALSE)
NoNode == [node |-> "None"]

\* Ok(val) with the parser left at position pos
POk(pos, val) == [ok |-> TRUE, pos |-> pos, val |-> val, err |-> NoError]
\* Err(err); the position a failed call leaves behind is never read
PErr(err) == [ok |-> FALSE, pos |-> 0, val |-> NoNode, err |-> err]

(***************************************************************************)
(* Sequencing.  Try is Rust's `?`: an Err is returned as it is, an Ok goes *)
(* on to the rest of the function, which is the operator K.  Let is        *)
(* `let x = v;` followed by the rest of the function.                      *)
(***************************************************************************)
Try(r, K(_)) == IF r.ok THEN K(r) ELSE r

Let(v, K(_)) == K(v)

(***************************************************************************)
(* Parser cursor (parser.rs)                                               *)
(***************************************************************************)
current_token(toks, pos) == IF pos < Len(toks) THEN toks[pos + 1] ELSE Eof

peek_token(toks, pos) == IF pos + 1 < Len(toks) THEN toks[pos + 2] ELSE Eof

advance(toks, pos) == IF pos < Len(toks) THEN pos + 1 ELSE pos

\* a token's Display name is part of the message; the model keeps the tag
expect(toks, pos, expected) ==
    IF current_token(toks, pos) = expected
    THEN POk(advance(toks, pos), NoNode)
    ELSE PErr(ParseError("Expected token", pos, TRUE))

(***************************************************************************)
(* Type checking helper functions (parser.rs)                              *)
(***************************************************************************)
\* Ok(ValueLiteral) or Err; its messages carry neither position nor input
extract_literal(expr) ==
    CASE expr.node = "Literal" -> POk(0, expr.lit)
      [] expr.node = "UnaryMinus" ->
            IF expr.expr.node = "Literal"
            THEN CASE expr.expr.lit.t = "Integer" ->
                        POk(0, Integer(-expr.expr.lit.i))
                   [] expr.expr.lit.t = "Float" ->
                        POk(0, Float(FNeg(expr.expr.lit.f)))
                   [] OTHER ->
                        PErr(ParseError("Unary minus can only be applied to numeric literals in BETWEEN bounds", -1, FALSE))
            ELSE PErr(ParseError("Complex expressions are not allowed here, only literal values", -1, FALSE))
      [] expr.node = "UnaryPlus" ->
            IF expr.expr.node = "Literal"
            THEN POk(0, expr.expr.lit)
            ELSE PErr(ParseError("Complex expressions are not allowed here, only literal values", -1, FALSE))
      [] expr.node = "Variable" ->
            PErr(ParseError("Variables are not allowed here, only literal values", -1, FALSE))
      [] OTHER ->
            PErr(ParseError("Complex expressions are not allowed here, only literal values", -1, FALSE))

literal_type_name(lit) ==
    CASE lit.t = "Integer" -> "integer"
      [] lit.t = "Float" -> "float"
      [] lit.t = "String" -> "string"
      [] lit.t = "Null" -> "NULL"
      [] lit.t = "Boolean" -> "boolean"

\* a compatibility test that lets every pair of bound types through
are_between_compatible_any(lower, upper) == TRUE

are_between_compatible(lower, upper) ==
    CASE lower.t = "Integer" /\ upper.t = "Integer" -> TRUE
      [] lower.t = "Integer" /\ upper.t = "Float" -> TRUE
      [] lower.t = "Float" /\ upper.t = "Integer" -> TRUE
      [] lower.t = "Float" /\ upper.t = "Float" -> TRUE
      [] lower.t = "String" /\ upper.t = "String" -> TRUE
      [] OTHER -> FALSE

validate_in_literal(lit, position) ==
    CASE lit.t = "Null" ->
            PErr(ParseError("NULL is not allowed in IN list", position, TRUE))
      [] lit.t = "Boolean" ->
            PErr(ParseError("Boolean literals are not allowed in IN list", position, TRUE))
      [] lit.t \in {"Integer", "Float", "String"} -> POk(position, NoNode)

\* a type test for IN lists that lets Integer and Float mix
are_exact_same_type_numeric(a, b) ==
    \/ a.t \in {"Integer", "Float"} /\ b.t \in {"Integer", "Float"}
    \/ a.t = "String" /\ b.t = "String"

are_exact_same_type(a, b) ==
    \/ a.t = "Integer" /\ b.t = "Integer"
    \/ a.t = "Float" /\ b.t = "Float"
    \/ a.t = "String" /\ b.t = "String"

\* a bound validation that never compares the bounds
validate_between_bounds_unordered(lower, upper, position) ==
    POk(position, NoNode)

validate_between_bounds(lower, upper, position) ==
    LET out_of_order ==
            PErr(ParseError("BETWEEN lower bound must be less than or equal to upper bound", position, TRUE))
    IN  CASE lower.t = "Integer" /\ upper.t = "Integer" ->
                IF lower.i > upper.i THEN out_of_order ELSE POk(position, NoNode)
          [] lower.t = "Float" /\ upper.t = "Float" ->
                IF FGt(lower.f, upper.f) THEN out_of_order ELSE POk(position, NoNode)
          [] lower.t = "Integer" /\ upper.t = "Float" ->
                IF FGt(as_f64(lower.i), upper.f) THEN out_of_order ELSE POk(position, NoNode)
          [] lower.t = "Float" /\ upper.t = "Integer" ->
                IF FGt(lower.f, as_f64(upper.i)) THEN out_of_order ELSE POk(position, NoNode)
          [] lower.t = "String" /\ upper.t = "String" ->
                IF StrGt(lower.s, upper.s) THEN out_of_order ELSE POk(position, NoNode)
          [] OTHER -> POk(position, NoNode)

(***************************************************************************)
(* Value expression parsing (parser.rs)                                    *)
(***************************************************************************)
RECURSIVE parse_value_expression(_, _)
RECURSIVE parse_add_expression(_, _)
RECURSIVE parse_add_expression_loop(_, _, _)
RECURSIVE parse_mult_expression(_, _)
RECURSIVE parse_mult_expression_loop(_, _, _)
RECURSIVE parse_unary_value_expression(_, _)
RECURSIVE parse_value_primary(_, _)

parse_value_primary(toks, pos) ==
    Let(current_token(toks, pos), LAMBDA tok :
    CASE tok.k = "IntegerLiteral" ->
            POk(advance(toks, pos), Literal(Integer(tok.lit.i)))
      [] tok.k = "FloatLiteral" ->
            POk(advance(toks, pos), Literal(Float(tok.lit.f)))
      [] tok.k = "StringLiteral" ->
            POk(advance(toks, pos), Literal(String(tok.lit.s)))
      [] tok.k = "Null" -> POk(advance(toks, pos), Literal(Null))
      [] tok.k = "True" -> POk(advance(toks, pos), Literal(Boolean(TRUE)))
      [] tok.k = "False" -> POk(advance(toks, pos), Literal(Boolean(FALSE)))
      [] tok.k = "Identifier" -> POk(advance(toks, pos), Variable(tok.name))
      [] tok.k = "LeftParen" ->
            Try(parse_value_expression(toks, advance(toks, pos)), LAMBDA expr :
            Try(expect(toks, expr.pos, T_RightParen), LAMBDA close :
            POk(close.pos, expr.val)))
      [] OTHER -> PErr(ParseError("Expected value expression", -1, FALSE)))

parse_unary_value_expression(toks, pos) ==
    Let(current_token(toks, pos), LAMBDA tok :
    CASE tok.k = "Plus" ->
            Try(parse_unary_value_expression(toks, advance(toks, pos)), LAMBDA expr :
            POk(expr.pos, UnaryPlus(expr.val)))
      [] tok.k = "Minus" ->
            Try(parse_unary_value_expression(toks, advance(toks, pos)), LAMBDA expr :
            POk(expr.pos, UnaryMinus(expr.val)))
      [] OTHER -> parse_value_primary(toks, pos))

\* the loop of parse_mult_expression, entered with the operand parsed so far
parse_mult_expression_loop(toks, pos, left) ==
    Let(current_token(toks, pos), LAMBDA tok :
    IF tok.k \in {"Star", "Slash", "Percent"}
    THEN Try(parse_unary_value_expression(toks, advance(toks, pos)), LAMBDA right :
         parse_mult_expression_loop(toks, right.pos,
            CASE tok.k = "Star" -> Multiply(left, right.val)
              [] tok.k = "Slash" -> Divide(left, right.val)
              [] tok.k = "Percent" -> Modulo(left, right.val)))
    ELSE POk(pos, left))

parse_mult_expression(toks, pos) ==
    Try(parse_unary_value_expression(toks, pos), LAMBDA left :
    parse_mult_expression_loop(toks, left.pos, left.val))

\* the loop of parse_add_expression, entered with the operand parsed so far
parse_add_expression_loop(toks, pos, left) ==
    Let(current_token(toks, pos), LAMBDA tok :
    IF tok.k \in {"Plus", "Minus"}
    THEN Try(parse_mult_expression(toks, advance(toks, pos)), LAMBDA right :
         parse_add_expression_loop(toks, right.pos,
            CASE tok.k = "Plus" -> Add(left, right.val)
              [] tok.k = "Minus" -> Subtract(left, right.val)))
    ELSE POk(pos, left))

parse_add_expression(toks, pos) ==
    Try(parse_mult_expression(toks, pos), LAMBDA left :
    parse_add_expression_loop(toks, left.pos, left.val))

parse_value_expression(toks, pos) == parse_add_expression(toks, pos)

(***************************************************************************)
(* Relational expression parsing (parser.rs)                               *)
(***************************************************************************)
expect_string_literal(toks, pos) ==
    Let(current_token(toks, pos), LAMBDA tok :
    IF tok.k = "StringLiteral"
    THEN POk(advance(toks, pos), tok.lit.s)
    ELSE PErr(ParseError("Expected string literal", pos, TRUE)))

expect_value_literal(toks, pos) ==
    Let(current_token(toks, pos) = T_Minus, LAMBDA is_negative :
    Let(IF is_negative THEN advance(toks, pos) ELSE pos, LAMBDA p :
    Let(current_token(toks, p), LAMBDA tok :
    CASE tok.k = "StringLiteral" ->
            IF is_negative
            THEN PErr(ParseError("Cannot apply unary minus to string literal", p, TRUE))
            ELSE POk(advance(toks, p), String(tok.lit.s))
      [] tok.k = "IntegerLiteral" ->
            POk(advance(toks, p),
                Integer(IF is_negative THEN -tok.lit.i ELSE tok.lit.i))
      [] tok.k = "FloatLiteral" ->
            POk(advance(toks, p),
                Float(IF is_negative THEN FNeg(tok.lit.f) ELSE tok.lit.f))
      [] tok.k = "Null" ->
            IF is_negative
            THEN PErr(ParseError("Cannot apply unary minus to NULL", p, TRUE))
            ELSE POk(advance(toks, p), Null)
      [] tok.k = "True" ->
            IF is_negative
            THEN PErr(ParseError("Cannot apply unary minus to boolean", p, TRUE))
            ELSE POk(advance(toks, p), Boolean(TRUE))
      [] tok.k = "False" ->
            IF is_negative
            THEN PErr(ParseError("Cannot apply unary minus to boolean", p, TRUE))
            ELSE POk(advance(toks, p), Boolean(FALSE))
      [] OTHER -> PErr(ParseError("Expected literal value", p, TRUE)))))

\* the while loop of parse_string_list, entered with the values read so far
RECURSIVE parse_string_list_loop(_, _, _, _)
parse_string_list_loop(toks, pos, first, values) ==
    IF current_token(toks, pos) = T_Comma
    THEN Try(expect_value_literal(toks, advance(toks, pos)), LAMBDA next :
         Try(validate_in_literal(next.val, next.pos), LAMBDA valid :
         IF ~are_exact_same_type(first, next.val)
         THEN PErr(ParseError("IN list values must all be the same type", next.pos, TRUE))
         ELSE parse_string_list_loop(toks, next.pos, first,
                                     Append(values, next.val))))
    ELSE Try(expect(toks, pos, T_RightParen), LAMBDA close :
         POk(close.pos, values))

parse_string_list(toks, pos) ==
    Try(expect(toks, pos, T_LeftParen), LAMBDA open :
    Try(expect_value_literal(toks, open.pos), LAMBDA first :
    Try(validate_in_literal(first.val, first.pos), LAMBDA valid :
    parse_string_list_loop(toks, first.pos, first.val, <<first.val>>))))

\* [NOT] LIKE: the two copies in the source differ in `negated` alone
parse_like_branch(toks, pos, left) ==
    Try(expect_string_literal(toks, advance(toks, pos)), LAMBDA pattern :
    IF current_token(toks, pattern.pos) = T_Escape
    THEN Try(expect_string_literal(toks, advance(toks, pattern.pos)), LAMBDA escape :
         POk(escape.pos, Like(left, pattern.val, <<escape.val>>, FALSE)))
    ELSE POk(pattern.pos, Like(left, pattern.val, <<>>, FALSE)))

parse_not_like_branch(toks, pos, left) ==
    Try(expect_string_literal(toks, advance(toks, pos)), LAMBDA pattern :
    IF current_token(toks, pattern.pos) = T_Escape
    THEN Try(expect_string_literal(toks, advance(toks, pattern.pos)), LAMBDA escape :
         POk(escape.pos, Like(left, pattern.val, <<escape.val>>, TRUE)))
    ELSE POk(pattern.pos, Like(left, pattern.val, <<>>, TRUE)))

\* Token::Between arm, entered at the BETWEEN token
parse_between_branch(toks, pos, left) ==
    Try(parse_value_expression(toks, advance(toks, pos)), LAMBDA lower_expr :
    Try(expect(toks, lower_expr.pos, T_And), LAMBDA and_tok :
    Try(parse_value_expression(toks, and_tok.pos), LAMBDA upper_expr :
    Try(extract_literal(lower_expr.val), LAMBDA lower_lit :
    Try(extract_literal(upper_expr.val), LAMBDA upper_lit :
    Let(upper_expr.pos, LAMBDA position :
    IF lower_lit.val.t = "Null"
    THEN PErr(ParseError("NULL is not allowed as lower bound in BETWEEN", position, TRUE))
    ELSE IF upper_lit.val.t = "Null"
    THEN PErr(ParseError("NULL is not allowed as upper bound in BETWEEN", position, TRUE))
    ELSE IF lower_lit.val.t = "Boolean"
    THEN PErr(ParseError("Boolean literals are not allowed as lower bound in BETWEEN", position, TRUE))
    ELSE IF upper_lit.val.t = "Boolean"
    THEN PErr(ParseError("Boolean literals are not allowed as upper bound in BETWEEN", position, TRUE))
    ELSE IF ~are_between_compatible(lower_lit.val, upper_lit.val)
    THEN PErr(ParseError("BETWEEN bounds must be both numeric or both string", position, TRUE))
    ELSE Try(validate_between_bounds(lower_lit.val, upper_lit.val, position),
             LAMBDA order :
             POk(position, Between(left, lower_expr.val, upper_expr.val, FALSE)))))))))

\* Token::Not / Token::Between arm, entered at the BETWEEN token
parse_not_between_branch(toks, pos, left) ==
    Try(parse_value_expression(toks, advance(toks, pos)), LAMBDA lower_expr :
    Try(expect(toks, lower_expr.pos, T_And), LAMBDA and_tok :
    Try(parse_value_expression(toks, and_tok.pos), LAMBDA upper_expr :
    Try(extract_literal(lower_expr.val), LAMBDA lower_lit :
    Try(extract_literal(upper_expr.val), LAMBDA upper_lit :
    Let(upper_expr.pos, LAMBDA position :
    IF lower_lit.val.t = "Null"
    THEN PErr(ParseError("NULL is not allowed as lower bound in NOT BETWEEN", position, TRUE))
    ELSE IF upper_lit.val.t = "Null"
    THEN PErr(ParseError("NULL is not allowed as upper bound in NOT BETWEEN", position, TRUE))
    ELSE IF lower_lit.val.t = "Boolean"
    THEN PErr(ParseError("Boolean literals are not allowed as lower bound in NOT BETWEEN", position, TRUE))
    ELSE IF upper_lit.val.t = "Boolean"
    THEN PErr(ParseError("Boolean literals are not allowed as upper bound in NOT BETWEEN", position, TRUE))
    ELSE IF ~are_between_compatible(lower_lit.val, upper_lit.val)
    THEN PErr(ParseError("NOT BETWEEN bounds must be both numeric or both string", position, TRUE))
    ELSE Try(validate_between_bounds(lower_lit.val, upper_lit.val, position),
             LAMBDA order :
             POk(position, Between(left, lower_expr.val, upper_expr.val, TRUE)))))))))

\* Token::In arm and Token::Not / Token::In arm, entered at the IN token
parse_in_branch(toks, pos, left) ==
    Try(parse_string_list(toks, advance(toks, pos)), LAMBDA values :
    POk(values.pos, In(left, values.val, FALSE)))

parse_not_in_branch(toks, pos, left) ==
    Try(parse_string_list(toks, advance(toks, pos)), LAMBDA values :
    POk(values.pos, In(left, values.val, TRUE)))

\* Token::Is arm, entered at the IS token
parse_is_branch(toks, pos, left) ==
    Let(advance(toks, pos), LAMBDA p :
    Let(current_token(toks, p) = T_Not, LAMBDA negated :
    Let(IF negated THEN advance(toks, p) ELSE p, LAMBDA q :
    Try(expect(toks, q, T_Null), LAMBDA null_tok :
    POk(null_tok.pos, IsNull(left, negated))))))

\* the six arms `op ValueExpr`, entered at the operator token
parse_operator_branch(toks, pos, left) ==
    Let(current_token(toks, pos), LAMBDA tok :
    Try(parse_value_expression(toks, advance(toks, pos)), LAMBDA right :
    POk(right.pos,
        CASE tok.k = "Equal" -> Equality(left, "Equal", right.val)
          [] tok.k = "NotEqual" -> Equality(left, "NotEqual", right.val)
          [] tok.k = "GreaterThan" -> Comparison(left, "GreaterThan", right.val)
          [] tok.k = "GreaterOrEqual" ->
                Comparison(left, "GreaterOrEqual", right.val)
          [] tok.k = "LessThan" -> Comparison(left, "LessThan", right.val)
          [] tok.k = "LessOrEqual" -> Comparison(left, "LessOrEqual", right.val))))

\* a relational parser that lets a value expression without an operator
\* through, as a presence test
no_relational_operator_lenient(pos, left) == POk(pos, IsNull(left, TRUE))

\* the `_` arm: the value expression is followed by no relational operator
no_relational_operator(pos, left) ==
    PErr(ParseError("Expected relational operator", pos, TRUE))

parse_relational_expression(toks, pos) ==
    Try(parse_value_expression(toks, pos), LAMBDA left :
    Let(current_token(toks, left.pos), LAMBDA tok :
    CASE tok.k \in {"Equal", "NotEqual", "GreaterThan", "GreaterOrEqual",
                    "LessThan", "LessOrEqual"} ->
            parse_operator_branch(toks, left.pos, left.val)
      [] tok.k = "Like" -> parse_like_branch(toks, left.pos, left.val)
      [] tok.k = "Not" ->
            Let(advance(toks, left.pos), LAMBDA p :
            Let(current_token(toks, p), LAMBDA after :
            CASE after.k = "Like" -> parse_not_like_branch(toks, p, left.val)
              [] after.k = "Between" -> parse_not_between_branch(toks, p, left.val)
              [] after.k = "In" -> parse_not_in_branch(toks, p, left.val)
              [] OTHER ->
                    PErr(ParseError("Expected LIKE, BETWEEN, or IN after NOT", p, TRUE))))
      [] tok.k = "Between" -> parse_between_branch(toks, left.pos, left.val)
      [] tok.k = "In" -> parse_in_branch(toks, left.pos, left.val)
      [] tok.k = "Is" -> parse_is_branch(toks, left.pos, left.val)
      [] OTHER -> no_relational_operator(left.pos, left.val)))

(***************************************************************************)
(* Boolean expression parsing (parser.rs)                                  *)
(***************************************************************************)
is_relational_operator_ahead(toks, pos) ==
    peek_token(toks, pos).k \in
        {"Equal", "NotEqual", "GreaterThan", "GreaterOrEqual", "LessThan",
         "LessOrEqual", "Like", "Between", "In", "Is", "Not"}

is_arithmetic_operator_ahead(toks, pos) ==
    peek_token(toks, pos).k \in {"Plus", "Minus", "Star", "Slash", "Percent"}

\* a relational expression wrapped as a boolean term
relational_term(toks, pos) ==
    Try(parse_relational_expression(toks, pos), LAMBDA rel :
    POk(rel.pos, Relational(rel.val)))

RECURSIVE parse_boolean_expression(_, _)
RECURSIVE parse_boolean_or_expression(_, _)
RECURSIVE parse_boolean_or_expression_loop(_, _, _)
RECURSIVE parse_boolean_and_expression(_, _)
RECURSIVE parse_boolean_and_expression_loop(_, _, _)
RECURSIVE parse_boolean_term(_, _)
RECURSIVE parse_boolean_or_expression_loop_flat(_, _, _)

\* a Token::LeftParen arm that, when the trial fails, goes on from where the
\* trial began instead of going back before the '('
parse_parenthesized_term_no_rewind(toks, pos) ==
    Let(advance(toks, pos), LAMBDA saved_pos :
    Let(parse_boolean_expression(toks, saved_pos), LAMBDA trial :
    IF trial.ok /\ current_token(toks, trial.pos) = T_RightParen
    THEN POk(advance(toks, trial.pos), trial.val)
    ELSE relational_term(toks, saved_pos)))

\* Token::LeftParen arm of parse_boolean_term, entered at the '('
parse_parenthesized_term(toks, pos) ==
    Let(advance(toks, pos), LAMBDA saved_pos :
    Let(parse_boolean_expression(toks, saved_pos), LAMBDA trial :
    IF trial.ok /\ current_token(toks, trial.pos) = T_RightParen
    THEN POk(advance(toks, trial.pos), trial.val)
    ELSE relational_term(toks, saved_pos - 1)))

parse_boolean_term(toks, pos) ==
    Let(current_token(toks, pos), LAMBDA tok :
    CASE tok.k = "Not" ->
            Try(parse_boolean_term(toks, advance(toks, pos)), LAMBDA expr :
            POk(expr.pos, Not(expr.val)))
      [] tok.k = "LeftParen" -> parse_parenthesized_term(toks, pos)
      [] tok.k = "True" -> POk(advance(toks, pos), BoolLiteral(TRUE))
      [] tok.k = "False" -> POk(advance(toks, pos), BoolLiteral(FALSE))
      [] tok.k = "Identifier" ->
            IF is_relational_operator_ahead(toks, pos)
               \/ is_arithmetic_operator_ahead(toks, pos)
            THEN relational_term(toks, pos)
            ELSE POk(advance(toks, pos), BoolVariable(tok.name))
      [] OTHER -> relational_term(toks, pos))

\* the while loop of parse_boolean_and_expression
parse_boolean_and_expression_loop(toks, pos, left) ==
    IF current_token(toks, pos) = T_And
    THEN Try(parse_boolean_term(toks, advance(toks, pos)), LAMBDA right :
         parse_boolean_and_expression_loop(toks, right.pos, And(left, right.val)))
    ELSE POk(pos, left)

parse_boolean_and_expression(toks, pos) ==
    Try(parse_boolean_term(toks, pos), LAMBDA left :
    parse_boolean_and_expression_loop(toks, left.pos, left.val))

\* an OR loop whose right operand is a single term, so that AND does not
\* bind tighter than OR
parse_boolean_or_expression_loop_flat(toks, pos, left) ==
    IF current_token(toks, pos) = T_Or
    THEN Try(parse_boolean_term(toks, advance(toks, pos)), LAMBDA right :
         parse_boolean_or_expression_loop_flat(toks, right.pos, Or(left, right.val)))
    ELSE POk(pos, left)

\* the while loop of parse_boolean_or_expression
parse_boolean_or_expression_loop(toks, pos, left) ==
    IF current_token(toks, pos) = T_Or
    THEN Try(parse_boolean_and_expression(toks, advance(toks, pos)), LAMBDA right :
         parse_boolean_or_expression_loop(toks, right.pos, Or(left, right.val)))
    ELSE POk(pos, left)

parse_boolean_or_expression(toks, pos) ==
    Try(parse_boolean_and_expression(toks, pos), LAMBDA left :
    parse_boolean_or_expression_loop(toks, left.pos, left.val))

parse_boolean_expression(toks, pos) == parse_boolean_or_expression(toks, pos)

\* a parser entry point that returns the expression without looking for Eof
Parser_parse_prefix(toks) ==
    Try(parse_boolean_expression(toks, 0), LAMBDA expr :
    POk(expr.pos, expr.val))

\* Parser::parse, from position 0
Parser_parse(toks) ==
    Try(parse_boolean_expression(toks, 0), LAMBDA expr :
    IF current_token(toks, expr.pos) # Eof
    THEN PErr(ParseError("Unexpected token", expr.pos, TRUE))
    ELSE POk(expr.pos, expr.val))

\* pub fn parse(input): Parser::new(input)?.parse(), on the tokens of input
parse(toks) == Parser_parse(toks)

(***************************************************************************)
(* The calls of the recursive descent (parser.rs).  A call is a parsing    *)
(* function entered with the cursor at a position; Run is its result and   *)
(* DirectCalls the calls its body makes, the iterations of its while loop  *)
(* included.                                                               *)
(***************************************************************************)
Call(fn, pos) == [fn |-> fn, pos |-> pos]

Run(toks, c) ==
    CASE c.fn = "parse_boolean_expression" -> parse_boolean_expression(toks, c.pos)
      [] c.fn = "parse_boolean_or_expression" -> parse_boolean_or_expression(toks, c.pos)
      [] c.fn = "parse_boolean_and_expression" -> parse_boolean_and_expression(toks, c.pos)
      [] c.fn = "parse_boolean_term" -> parse_boolean_term(toks, c.pos)
      [] c.fn = "parse_relational_expression" -> parse_relational_expression(toks, c.pos)
      [] c.fn = "parse_value_expression" -> parse_value_expression(toks, c.pos)
      [] c.fn = "parse_add_expression" -> parse_add_expression(toks, c.pos)
      [] c.fn = "parse_mult_expression" -> parse_mult_expression(toks, c.pos)
      [] c.fn = "parse_unary_value_expression" -> parse_unary_value_expression(toks, c.pos)
      [] c.fn = "parse_value_primary" -> parse_value_primary(toks, c.pos)
      [] c.fn = "parse_string_list" -> parse_string_list(toks, c.pos)

\* the calls of `while current is one of ops { advance; fn()? }`, entered
\* with the cursor at pos
RECURSIVE LoopCalls(_, _, _, _)
LoopCalls(toks, pos, ops, fn) ==
    IF current_token(toks, pos).k \in ops
    THEN Let(Call(fn, advance(toks, pos)), LAMBDA c :
         {c} \union (IF Run(toks, c).ok
                     THEN LoopCalls(toks, Run(toks, c).pos, ops, fn)
                     ELSE {}))
    ELSE {}

\* `first()?` followed by the loop
OperandCalls(toks, pos, ops, fn) ==
    Let(Call(fn, pos), LAMBDA c :
    {c} \union (IF Run(toks, c).ok
                THEN LoopCalls(toks, Run(toks, c).pos, ops, fn)
                ELSE {}))

\* the BETWEEN arms, with the cursor after BETWEEN: the lower bound, AND,
\* the upper bound
BetweenCalls(toks, pos) ==
    Let(Call("parse_value_expression", pos), LAMBDA lower :
    {lower} \union
    (IF Run(toks, lower).ok /\ expect(toks, Run(toks, lower).pos, T_And).ok
     THEN {Call("parse_value_expression",
                expect(toks, Run(toks, lower).pos, T_And).pos)}
     ELSE {}))

\* the arms of parse_relational_expression, with the cursor at the operator
RelationalCalls(toks, pos) ==
    Let(current_token(toks, pos), LAMBDA tok :
    CASE tok.k \in {"Equal", "NotEqual", "GreaterThan", "GreaterOrEqual",
                    "LessThan", "LessOrEqual"} ->
            {Call("parse_value_expression", advance(toks, pos))}
      [] tok.k = "Between" -> BetweenCalls(toks, advance(toks, pos))
      [] tok.k = "In" -> {Call("parse_string_list", advance(toks, pos))}
      [] tok.k = "Not" ->
            Let(advance(toks, pos), LAMBDA p :
            CASE current_token(toks, p).k = "Between" ->
                    BetweenCalls(toks, advance(toks, p))
              [] current_token(toks, p).k = "In" ->
                    {Call("parse_string_list", advance(toks, p))}
              [] OTHER -> {})
      [] OTHER -> {})

\* a parse_boolean_term that, when the trial after '(' fails, calls itself
\* again at the '(' instead of parse_relational_expression
TermCalls_retry_term(toks, pos) ==
    Let(current_token(toks, pos), LAMBDA tok :
    CASE tok.k = "Not" -> {Call("parse_boolean_term", advance(toks, pos))}
      [] tok.k = "LeftParen" ->
            Let(advance(toks, pos), LAMBDA saved_pos :
            Let(parse_boolean_expression(toks, saved_pos), LAMBDA trial :
            {Call("parse_boolean_expression", saved_pos)} \union
            (IF trial.ok /\ current_token(toks, trial.pos) = T_RightParen
             THEN {}
             ELSE {Call("parse_boolean_term", saved_pos - 1)})))
      [] OTHER -> {})

\* the arms of parse_boolean_term
TermCalls(toks, pos) ==
    Let(current_token(toks, pos), LAMBDA tok :
    CASE tok.k = "Not" -> {Call("parse_boolean_term", advance(toks, pos))}
      [] tok.k = "LeftParen" ->
            Let(advance(toks, pos), LAMBDA saved_pos :
            Let(parse_boolean_expression(toks, saved_pos), LAMBDA trial :
            {Call("parse_boolean_expression", saved_pos)} \union
            (IF trial.ok /\ current_token(toks, trial.pos) = T_RightParen
             THEN {}
             ELSE {Call("parse_relational_expression", saved_pos - 1)})))
      [] tok.k \in {"True", "False"} -> {}
      [] tok.k = "Identifier" ->
            IF is_relational_operator_ahead(toks, pos)
               \/ is_arithmetic_operator_ahead(toks, pos)
            THEN {Call("parse_relational_expression", pos)}
            ELSE {}
      [] OTHER -> {Call("parse_relational_expression", pos)})

DirectCalls(toks, c) ==
    CASE c.fn = "parse_boolean_expression" ->
            {Call("parse_boolean_or_expression", c.pos)}
      [] c.fn = "parse_boolean_or_expression" ->
            OperandCalls(toks, c.pos, {"Or"}, "parse_boolean_and_expression")
      [] c.fn = "parse_boolean_and_expression" ->
            OperandCalls(toks, c.pos, {"And"}, "parse_boolean_term")
      [] c.fn = "parse_boolean_term" -> TermCalls(toks, c.pos)
      [] c.fn = "parse_relational_expression" ->
            Let(Call("parse_value_expression", c.pos), LAMBDA left :
            {left} \union (IF Run(toks, left).ok
                           THEN RelationalCalls(toks, Run(toks, left).pos)
                           ELSE {}))
      [] c.fn = "parse_value_expression" ->
            {Call("parse_add_expression", c.pos)}
      [] c.fn = "parse_add_expression" ->
            OperandCalls(toks, c.pos, {"Plus", "Minus"}, "parse_mult_expression")
      [] c.fn = "parse_mult_expression" ->
            OperandCalls(toks, c.pos, {"Star", "Slash", "Percent"},
                         "parse_unary_value_expression")
      [] c.fn = "parse_unary_value_expression" ->
            IF current_token(toks, c.pos).k \in {"Plus", "Minus"}
            THEN {Call("parse_unary_value_expression", advance(toks, c.pos))}
            ELSE {Call("parse_value_primary", c.pos)}
      [] c.fn = "parse_value_primary" ->
            IF current_token(toks, c.pos).k = "LeftParen"
            THEN {Call("parse_value_expression", advance(toks, c.pos))}
            ELSE {}
      [] c.fn = "parse_string_list" -> {}

\* every call made, directly or not, from the calls in S
RECURSIVE CallsFrom(_, _)
CallsFrom(toks, S) ==
    Let(S \union UNION {DirectCalls(toks, c) : c \in S}, LAMBDA more :
    IF more = S THEN S ELSE CallsFrom(toks, more))

\* every call of Parser::parse on toks
Calls(toks) == CallsFrom(toks, {Call("parse_boolean_expression", 0)})

(***************************************************************************)
(* EvalError and the evaluator's results (evaluator.rs).  An error record  *)
(* carries the fields of all variants, the unused ones empty.  `actual`    *)
(* holds the type names the message is formatted from.  A result also      *)
(* records, in call order, the paths (from the root of the AST) of the     *)
(* nodes eval_boolean and eval_value were called on.                       *)
(***************************************************************************)
EvalError(kind, name, operation, expected, actual, context, expression, message) ==
    [kind |-> kind, name |-> name, operation |-> operation,
     expected |-> expected, actual |-> actual, context |-> context,
     expression |-> expression, message |-> message]

NoEvalError == EvalError("", "", "", "", <<>>, "", <<>>, NoError)
EvalParseError(msg) == EvalError("EvalParseError", "", "", "", <<>>, "", <<>>, msg)
UnboundVariable(name) ==
    EvalError("UnboundVariable", name, "", "", <<>>, "", <<>>, NoError)
TypeError(operation, expected, actual, context) ==
    EvalError("TypeError", "", operation, expected, actual, context, <<>>, NoError)
NullInOperation(operation, context) ==
    EvalError("NullInOperation", "", operation, "", <<>>, context, <<>>, NoError)
DivisionByZero(expression) ==
    EvalError("DivisionByZero", "", "", "", <<>>, "", expression, NoError)
\* a panic is not an EvalError the caller receives: the thread unwinds through
\* every frame, as an Err does through every `?`, and evaluate returns nothing
Panic(context) == EvalError("panic", "", "", "", <<>>, context, <<>>, NoError)

EOk(val, visited) ==
    [ok |-> TRUE, val |-> val, err |-> NoEvalError, visited |-> visited]
EErr(err, visited) ==
    [ok |-> FALSE, val |-> Null, err |-> err, visited |-> visited]
\* Result<bool, EvalError>
BOk(b, visited) ==
    [ok |-> TRUE, b |-> b, err |-> NoEvalError, visited |-> visited]
BErr(err, visited) ==
    [ok |-> FALSE, b |-> FALSE, err |-> err, visited |-> visited]

\* the call on the node at `path`, then what the call did
Visit(path, result) == [result EXCEPT !.visited = <<path>> \o @]

(***************************************************************************)
(* SubValue (evaluator.rs)                                                 *)
(***************************************************************************)
from_runtime(rv) ==
    CASE rv.t = "Integer" -> Integer(rv.i)
      [] rv.t = "Float" -> Float(rv.f)
      [] rv.t = "String" -> String(rv.s)
      [] rv.t = "Boolean" -> Boolean(rv.b)
      [] rv.t = "Null" -> Null

from_literal(lit) ==
    CASE lit.t = "Integer" -> Integer(lit.i)
      [] lit.t = "Float" -> Float(lit.f)
      [] lit.t = "String" -> String(lit.s)
      [] lit.t = "Boolean" -> Boolean(lit.b)
      [] lit.t = "Null" -> Null

type_name(v) ==
    CASE v.t = "Integer" -> "integer"
      [] v.t = "Float" -> "float"
      [] v.t = "String" -> "string"
      [] v.t = "Boolean" -> "boolean"
      [] v.t = "Null" -> "NULL"

runtime_type_name(rv) ==
    CASE rv.t = "Integer" -> "integer"
      [] rv.t = "Float" -> "float"
      [] rv.t = "String" -> "string"
      [] rv.t = "Boolean" -> "boolean"
      [] rv.t = "Null" -> "NULL"

\* a null test that finds no value null
is_null_never(v) == FALSE

is_null(v) == v.t = "Null"

to_numeric(val) ==
    CASE val.t = "Integer" -> EOk(Float(as_f64(val.i)), <<>>)
      [] val.t = "Float" -> EOk(Float(val.f), <<>>)
      [] OTHER ->
            EErr(TypeError("numeric comparison", "numeric", <<type_name(val)>>,
                           "operand"), <<>>)

\* a compatibility that takes Integer and Float for different types
are_types_compatible_for_in_exact(left, right) == left.t = right.t

are_types_compatible_for_in(left, right) ==
    CASE left.t = "Integer" /\ right.t = "Integer" -> TRUE
      [] left.t = "Float" /\ right.t = "Float" -> TRUE
      [] left.t = "String" /\ right.t = "String" -> TRUE
      [] left.t = "Boolean" /\ right.t = "Boolean" -> TRUE
      [] left.t = "Null" /\ right.t = "Null" -> TRUE
      [] left.t = "Integer" /\ right.t = "Float" -> TRUE
      [] left.t = "Float" /\ right.t = "Integer" -> TRUE
      [] OTHER -> FALSE

\* i64 arithmetic: the mathematical results of a + b, a - b, a * b, -a, a % b
i64_add(a, b) == a + b
i64_sub(a, b) == a - b
i64_mul(a, b) == a * b
i64_neg(a) == -a
i64_rem(a, b) == IRem(a, b)

\* the integer type: two's complement of IntBits bits (64 in the source)
IntBits == 8
I64_MIN == -(2 ^ (IntBits - 1))
I64_MAX == (2 ^ (IntBits - 1)) - 1
wrapping(n) == ((n - I64_MIN) % (2 ^ IntBits)) + I64_MIN

\* Ok(SubValue::Integer(n)) of a +, -, * or negation whose mathematical result
\* is n: out of range, a build with overflow checks (debug) panics and a
\* build without them (release) wraps
integer_result(self, n, visited) ==
    IF n >= I64_MIN /\ n <= I64_MAX THEN EOk(Integer(n), visited)
    ELSE IF self.overflow_checks
    THEN EErr(Panic("attempt to compute with overflow"), visited)
    ELSE EOk(Integer(wrapping(n)), visited)

\* Ok(SubValue::Integer(a % b)), b nonzero: i64::MIN % -1 panics in every build
remainder_result(a, b, visited) ==
    IF a = I64_MIN /\ b = -1
    THEN EErr(Panic("attempt to calculate the remainder with overflow"), visited)
    ELSE EOk(Integer(i64_rem(a, b)), visited)

(***************************************************************************)
(* Value expression evaluation (evaluator.rs).  self is the Evaluator:     *)
(* input, ast, value_map, and whether the build it runs in checks integer  *)
(* overflow.                                                               *)
(***************************************************************************)
\* an evaluator that does not keep the input string
Evaluator_without_input(input, ast, map, overflow_checks) ==
    [input |-> <<>>, ast |-> ast, value_map |-> map,
     overflow_checks |-> overflow_checks]

Evaluator(input, ast, map, overflow_checks) ==
    [input |-> input, ast |-> ast, value_map |-> map,
     overflow_checks |-> overflow_checks]

RECURSIVE eval_value(_, _, _)

\* an operand evaluation that goes on to the right operand after the left
\* one failed, and reports the later error
eval_operands_late(self, l, r, path) ==
    Let(eval_value(self, l, path \o <<"left">>), LAMBDA left :
    Let(eval_value(self, r, path \o <<"right">>), LAMBDA right :
    Let(left.visited \o right.visited, LAMBDA visited :
    IF ~right.ok THEN [ok |-> FALSE, res |-> EErr(right.err, visited)]
    ELSE IF ~left.ok THEN [ok |-> FALSE, res |-> EErr(left.err, visited)]
    ELSE [ok |-> TRUE, left |-> left.val, right |-> right.val,
          visited |-> visited])))

\* an operand evaluation that looks at the left value before it evaluates the
\* right operand, and reports a Null on the left at once
eval_operands_null_first(self, l, r, path) ==
    Let(eval_value(self, l, path \o <<"left">>), LAMBDA left :
    IF ~left.ok THEN [ok |-> FALSE, res |-> left]
    ELSE IF is_null(left.val)
    THEN [ok |-> FALSE,
          res |-> EErr(NullInOperation("", "cannot use NULL values"), left.visited)]
    ELSE Let(eval_value(self, r, path \o <<"right">>), LAMBDA right :
         IF ~right.ok
         THEN [ok |-> FALSE,
               res |-> EErr(right.err, left.visited \o right.visited)]
         ELSE [ok |-> TRUE, left |-> left.val, right |-> right.val,
               visited |-> left.visited \o right.visited]))

\* the operands of a binary node, left then right: the values, or the first error
eval_operands(self, l, r, path) ==
    Let(eval_value(self, l, path \o <<"left">>), LAMBDA left :
    IF ~left.ok THEN [ok |-> FALSE, res |-> left]
    ELSE Let(eval_value(self, r, path \o <<"right">>), LAMBDA right :
         IF ~right.ok
         THEN [ok |-> FALSE,
               res |-> EErr(right.err, left.visited \o right.visited)]
         ELSE [ok |-> TRUE, left |-> left.val, right |-> right.val,
               visited |-> left.visited \o right.visited]))

eval_arithmetic_add(self, l, r, path) ==
    Let(eval_operands(self, l, r, path), LAMBDA ops :
    IF ~ops.ok THEN ops.res
    ELSE Let(ops.left, LAMBDA left :
         Let(ops.right, LAMBDA right :
         IF is_null(left) \/ is_null(right)
         THEN EErr(NullInOperation("addition", "cannot add NULL values"), ops.visited)
         ELSE CASE left.t = "Integer" /\ right.t = "Integer" ->
                      integer_result(self, i64_add(left.i, right.i), ops.visited)
                [] left.t = "Float" /\ right.t = "Float" ->
                      EOk(Float(FAdd(left.f, right.f)), ops.visited)
                [] left.t = "Integer" /\ right.t = "Float" ->
                      EOk(Float(FAdd(as_f64(left.i), right.f)), ops.visited)
                [] left.t = "Float" /\ right.t = "Integer" ->
                      EOk(Float(FAdd(left.f, as_f64(right.i))), ops.visited)
                [] OTHER ->
                      EErr(TypeError("addition", "numeric types",
                                     <<type_name(left), type_name(right)>>,
                                     "arithmetic operation"), ops.visited))))

eval_arithmetic_subtract(self, l, r, path) ==
    Let(eval_operands(self, l, r, path), LAMBDA ops :
    IF ~ops.ok THEN ops.res
    ELSE Let(ops.left, LAMBDA left :
         Let(ops.right, LAMBDA right :
         IF is_null(left) \/ is_null(right)
         THEN EErr(NullInOperation("subtraction", "cannot subtract NULL values"), ops.visited)
         ELSE CASE left.t = "Integer" /\ right.t = "Integer" ->
                      integer_result(self, i64_sub(left.i, right.i), ops.visited)
                [] left.t = "Float" /\ right.t = "Float" ->
                      EOk(Float(FSub(left.f, right.f)), ops.visited)
                [] left.t = "Integer" /\ right.t = "Float" ->
                      EOk(Float(FSub(as_f64(left.i), right.f)), ops.visited)
                [] left.t = "Float" /\ right.t = "Integer" ->
                      EOk(Float(FSub(left.f, as_f64(right.i))), ops.visited)
                [] OTHER ->
                      EErr(TypeError("subtraction", "numeric types",
                                     <<type_name(left), type_name(right)>>,
                                     "arithmetic operation"), ops.visited))))

eval_arithmetic_multiply(self, l, r, path) ==
    Let(eval_operands(self, l, r, path), LAMBDA ops :
    IF ~ops.ok THEN ops.res
    ELSE Let(ops.left, LAMBDA left :
         Let(ops.right, LAMBDA right :
         IF is_null(left) \/ is_null(right)
         THEN EErr(NullInOperation("multiplication", "cannot multiply NULL values"), ops.visited)
         ELSE CASE left.t = "Integer" /\ right.t = "Integer" ->
                      integer_result(self, i64_mul(left.i, right.i), ops.visited)
                [] left.t = "Float" /\ right.t = "Float" ->
                      EOk(Float(FMul(left.f, right.f)), ops.visited)
                [] left.t = "Integer" /\ right.t = "Float" ->
                      EOk(Float(FMul(as_f64(left.i), right.f)), ops.visited)
                [] left.t = "Float" /\ right.t = "Integer" ->
                      EOk(Float(FMul(left.f, as_f64(right.i))), ops.visited)
                [] OTHER ->
                      EErr(TypeError("multiplication", "numeric types",
                                     <<type_name(left), type_name(right)>>,
                                     "arithmetic operation"), ops.visited))))

eval_arithmetic_divide(self, l, r, path) ==
    Let(eval_operands(self, l, r, path), LAMBDA ops :
    IF ~ops.ok THEN ops.res
    ELSE Let(ops.left, LAMBDA left :
         Let(ops.right, LAMBDA right :
         IF is_null(left) \/ is_null(right)
         THEN EErr(NullInOperation("division", "cannot divide NULL values"),
                   ops.visited)
         ELSE IF left.t \notin {"Integer", "Float"}
         THEN EErr(TypeError("division", "numeric", <<type_name(left)>>,
                             "left operand"), ops.visited)
         ELSE IF right.t \notin {"Integer", "Float"}
         THEN EErr(TypeError("division", "numeric", <<type_name(right)>>,
                             "right operand"), ops.visited)
         ELSE Let(IF left.t = "Integer" THEN as_f64(left.i) ELSE left.f,
                  LAMBDA left_float :
              Let(IF right.t = "Integer" THEN as_f64(right.i) ELSE right.f,
                  LAMBDA right_float :
              IF FEq(right_float, FZero)
              THEN EErr(DivisionByZero(self.input), ops.visited)
              ELSE EOk(Float(FDiv(left_float, right_float)), ops.visited))))))

eval_arithmetic_modulo(self, l, r, path) ==
    Let(eval_operands(self, l, r, path), LAMBDA ops :
    IF ~ops.ok THEN ops.res
    ELSE Let(ops.left, LAMBDA left :
         Let(ops.right, LAMBDA right :
         Let(EErr(DivisionByZero(self.input), ops.visited), LAMBDA by_zero :
         IF is_null(left) \/ is_null(right)
         THEN EErr(NullInOperation("modulo", "cannot modulo NULL values"),
                   ops.visited)
         ELSE CASE left.t = "Integer" /\ right.t = "Integer" ->
                      IF right.i = 0 THEN by_zero
                      ELSE remainder_result(left.i, right.i, ops.visited)
                [] left.t = "Float" /\ right.t = "Float" ->
                      IF FEq(right.f, FZero) THEN by_zero
                      ELSE EOk(Float(FRem(left.f, right.f)), ops.visited)
                [] left.t = "Integer" /\ right.t = "Float" ->
                      IF FEq(right.f, FZero) THEN by_zero
                      ELSE EOk(Float(FRem(as_f64(left.i), right.f)), ops.visited)
                [] left.t = "Float" /\ right.t = "Integer" ->
                      IF right.i = 0 THEN by_zero
                      ELSE EOk(Float(FRem(left.f, as_f64(right.i))), ops.visited)
                [] OTHER ->
                      EErr(TypeError("modulo", "numeric types",
                                     <<type_name(left), type_name(right)>>,
                                     "arithmetic operation"), ops.visited)))))

\* ValueExpr::UnaryPlus arm of eval_value
eval_unary_plus(self, e, path) ==
    Let(eval_value(self, e, path \o <<"expr">>), LAMBDA val :
    IF ~val.ok THEN val
    ELSE CASE val.val.t = "Integer" -> EOk(Integer(val.val.i), val.visited)
           [] val.val.t = "Float" -> EOk(Float(val.val.f), val.visited)
           [] val.val.t = "Null" ->
                EErr(NullInOperation("unary plus", "cannot apply unary plus to NULL"),
                     val.visited)
           [] OTHER ->
                EErr(TypeError("unary plus", "numeric", <<type_name(val.val)>>,
                               "operand"), val.visited))

\* ValueExpr::UnaryMinus arm of eval_value
eval_unary_minus(self, e, path) ==
    Let(eval_value(self, e, path \o <<"expr">>), LAMBDA val :
    IF ~val.ok THEN val
    ELSE CASE val.val.t = "Integer" ->
                integer_result(self, i64_neg(val.val.i), val.visited)
           [] val.val.t = "Float" -> EOk(Float(FNeg(val.val.f)), val.visited)
           [] val.val.t = "Null" ->
                EErr(NullInOperation("unary minus", "cannot apply unary minus to NULL"),
                     val.visited)
           [] OTHER ->
                EErr(TypeError("unary minus", "numeric", <<type_name(val.val)>>,
                               "operand"), val.visited))

eval_value(self, expr, path) ==
    Visit(path,
        CASE expr.node = "Literal" -> EOk(from_literal(expr.lit), <<>>)
          [] expr.node = "Variable" ->
                IF expr.name \in DOMAIN self.value_map
                THEN EOk(from_runtime(self.value_map[expr.name]), <<>>)
                ELSE EErr(UnboundVariable(expr.name), <<>>)
          [] expr.node = "Add" -> eval_arithmetic_add(self, expr.left, expr.right, path)
          [] expr.node = "Subtract" ->
                eval_arithmetic_subtract(self, expr.left, expr.right, path)
          [] expr.node = "Multiply" ->
                eval_arithmetic_multiply(self, expr.left, expr.right, path)
          [] expr.node = "Divide" ->
                eval_arithmetic_divide(self, expr.left, expr.right, path)
          [] expr.node = "Modulo" ->
                eval_arithmetic_modulo(self, expr.left, expr.right, path)
          [] expr.node = "UnaryPlus" -> eval_unary_plus(self, expr.expr, path)
          [] expr.node = "UnaryMinus" -> eval_unary_minus(self, expr.expr, path))

(***************************************************************************)
(* Relational expression evaluation (evaluator.rs)                         *)
(***************************************************************************)
apply_comparison_op_f64(a, b, op) ==
    CASE op = "GreaterThan" -> FGt(a, b)
      [] op = "GreaterOrEqual" -> FGe(a, b)
      [] op = "LessThan" -> FLt(a, b)
      [] op = "LessOrEqual" -> FLe(a, b)

apply_comparison_op_i64(a, b, op) ==
    CASE op = "GreaterThan" -> a > b
      [] op = "GreaterOrEqual" -> a >= b
      [] op = "LessThan" -> a < b
      [] op = "LessOrEqual" -> a <= b

\* a string ordering in which >= and <= hold only for different strings
apply_comparison_op_str_strict(a, b, op) ==
    CASE op = "GreaterThan" -> StrGt(a, b)
      [] op = "GreaterOrEqual" -> StrGt(a, b)
      [] op = "LessThan" -> StrLt(a, b)
      [] op = "LessOrEqual" -> StrLt(a, b)

apply_comparison_op_str(a, b, op) ==
    CASE op = "GreaterThan" -> StrGt(a, b)
      [] op = "GreaterOrEqual" -> StrGe(a, b)
      [] op = "LessThan" -> StrLt(a, b)
      [] op = "LessOrEqual" -> StrLe(a, b)

\* an equality that compares operands of one type only, without coercion
eval_equality_same_type(self, left, right, op, path) ==
    Let(eval_operands(self, left, right, path), LAMBDA ops :
    IF ~ops.ok THEN BErr(ops.res.err, ops.res.visited)
    ELSE IF is_null(ops.left) \/ is_null(ops.right)
    THEN BErr(NullInOperation(op, "cannot compare NULL values (use IS NULL instead)"),
              ops.visited)
    ELSE IF ops.left.t # ops.right.t
    THEN BErr(TypeError(op, "matching types",
                        <<type_name(ops.left), type_name(ops.right)>>,
                        "equality comparison"), ops.visited)
    ELSE BOk((ops.left = ops.right) = (op = "Equal"), ops.visited))

eval_equality(self, left, right, op, path) ==
    Let(eval_operands(self, left, right, path), LAMBDA ops :
    IF ~ops.ok THEN BErr(ops.res.err, ops.res.visited)
    ELSE Let(ops.left, LAMBDA l_val :
         Let(ops.right, LAMBDA r_val :
         IF is_null(l_val) \/ is_null(r_val)
         THEN BErr(NullInOperation(op, "cannot compare NULL values (use IS NULL instead)"),
                   ops.visited)
         ELSE IF ~(\/ l_val.t \in {"Integer", "Float"}
                      /\ r_val.t \in {"Integer", "Float"}
                   \/ l_val.t = "String" /\ r_val.t = "String"
                   \/ l_val.t = "Boolean" /\ r_val.t = "Boolean")
         THEN BErr(TypeError(op, "matching types",
                             <<type_name(l_val), type_name(r_val)>>,
                             "equality comparison"), ops.visited)
         ELSE Let(CASE l_val.t = "Integer" /\ r_val.t = "Integer" -> l_val.i = r_val.i
                    [] l_val.t = "Float" /\ r_val.t = "Float" -> FEq(l_val.f, r_val.f)
                    [] l_val.t = "Integer" /\ r_val.t = "Float" ->
                          FEq(as_f64(l_val.i), r_val.f)
                    [] l_val.t = "Float" /\ r_val.t = "Integer" ->
                          FEq(l_val.f, as_f64(r_val.i))
                    [] l_val.t = "String" /\ r_val.t = "String" -> l_val.s = r_val.s
                    [] l_val.t = "Boolean" /\ r_val.t = "Boolean" -> l_val.b = r_val.b,
                  LAMBDA equal :
              BOk(CASE op = "Equal" -> equal
                    [] op = "NotEqual" -> ~equal, ops.visited)))))

eval_comparison(self, left, right, op, path) ==
    Let(eval_operands(self, left, right, path), LAMBDA ops :
    IF ~ops.ok THEN BErr(ops.res.err, ops.res.visited)
    ELSE Let(ops.left, LAMBDA l_val :
         Let(ops.right, LAMBDA r_val :
         IF is_null(l_val) \/ is_null(r_val)
         THEN BErr(NullInOperation(op, "cannot compare NULL values"), ops.visited)
         ELSE CASE l_val.t = "Integer" /\ r_val.t = "Integer" ->
                      BOk(apply_comparison_op_i64(l_val.i, r_val.i, op), ops.visited)
                [] l_val.t = "Float" /\ r_val.t = "Float" ->
                      BOk(apply_comparison_op_f64(l_val.f, r_val.f, op), ops.visited)
                [] l_val.t = "Integer" /\ r_val.t = "Float" ->
                      BOk(apply_comparison_op_f64(as_f64(l_val.i), r_val.f, op),
                          ops.visited)
                [] l_val.t = "Float" /\ r_val.t = "Integer" ->
                      BOk(apply_comparison_op_f64(l_val.f, as_f64(r_val.i), op),
                          ops.visited)
                [] l_val.t = "String" /\ r_val.t = "String" ->
                      BOk(apply_comparison_op_str(l_val.s, r_val.s, op), ops.visited)
                [] l_val.t = "Boolean" \/ r_val.t = "Boolean" ->
                      BErr(TypeError(op, "numeric or string", <<"boolean">>,
                                     "comparison operand"), ops.visited)
                [] OTHER ->
                      BErr(TypeError(op, "matching types",
                                     <<type_name(l_val), type_name(r_val)>>,
                                     "comparison"), ops.visited))))

(***************************************************************************)
(* LIKE: match_pattern translates the pattern to the regular expression    *)
(* ^...$ and matches it with the regex crate, whose `.` matches any        *)
(* character except the line feed.  The translated expression is the       *)
(* sequence of its items: "any" for `.*`, "one" for `.`, "lit" for an      *)
(* escaped literal character.                                              *)
(***************************************************************************)
LineFeed == 10
Percent == 37
Underscore == 95

RegexItem(kind, ch) == [kind |-> kind, ch |-> ch]

\* the while loop of match_pattern over the pattern's characters
RECURSIVE to_regex(_, _)
to_regex(pattern, escape) ==
    IF pattern = <<>> THEN <<>>
    ELSE LET ch == pattern[1]
             rest == Tail(pattern)
         IN  IF escape # <<>> /\ escape[1] # <<>> /\ ch = escape[1][1]
             THEN IF rest = <<>> THEN <<>>
                  ELSE <<RegexItem("lit", rest[1])>> \o to_regex(Tail(rest), escape)
             ELSE IF ch = Percent
             THEN <<RegexItem("any", 0)>> \o to_regex(rest, escape)
             ELSE IF ch = Underscore
             THEN <<RegexItem("one", 0)>> \o to_regex(rest, escape)
             ELSE <<RegexItem("lit", ch)>> \o to_regex(rest, escape)

\* Regex::is_match of ^items$ on s
RECURSIVE regex_is_match(_, _)
regex_is_match(items, s) ==
    IF items = <<>> THEN s = <<>>
    ELSE LET item == items[1]
         IN  CASE item.kind = "lit" ->
                    s # <<>> /\ s[1] = item.ch /\ regex_is_match(Tail(items), Tail(s))
               [] item.kind = "one" ->
                    s # <<>> /\ s[1] # LineFeed /\ regex_is_match(Tail(items), Tail(s))
               [] item.kind = "any" ->
                    \/ regex_is_match(Tail(items), s)
                    \/ s # <<>> /\ s[1] # LineFeed /\ regex_is_match(items, Tail(s))

match_pattern(s, pattern, escape) == regex_is_match(to_regex(pattern, escape), s)

eval_like(self, expr, pattern, escape, negated, path) ==
    Let(eval_value(self, expr, path \o <<"expr">>), LAMBDA val :
    IF ~val.ok THEN BErr(val.err, val.visited)
    ELSE CASE val.val.t = "String" ->
                Let(match_pattern(val.val.s, pattern, escape), LAMBDA matches :
                BOk(IF negated THEN ~matches ELSE matches, val.visited))
           [] val.val.t = "Null" ->
                BErr(NullInOperation("LIKE", "cannot apply LIKE to NULL"), val.visited)
           [] OTHER ->
                BErr(TypeError("LIKE", "string", <<type_name(val.val)>>,
                               "left operand"), val.visited))

\* a variant that returns the range test whatever `negated` says
between_result_flag_ignored(in_range, negated, visited) ==
    BOk(in_range, visited)

\* the result of BETWEEN / NOT BETWEEN from the range test
between_result(in_range, negated, visited) ==
    BOk(IF negated THEN ~in_range ELSE in_range, visited)

\* a fallback that refuses operands of mixed numeric types
eval_between_numeric_refused(v, l, h, negated, visited) ==
    BErr(TypeError("numeric comparison", "numeric", <<type_name(v)>>, "operand"),
         visited)

\* the `_` arm of eval_between's match: all three operands through to_numeric
eval_between_numeric(v, l, h, negated, visited) ==
    Let(to_numeric(v), LAMBDA v_num :
    IF ~v_num.ok THEN BErr(v_num.err, visited)
    ELSE Let(to_numeric(l), LAMBDA l_num :
         IF ~l_num.ok THEN BErr(l_num.err, visited)
         ELSE Let(to_numeric(h), LAMBDA h_num :
              IF ~h_num.ok THEN BErr(h_num.err, visited)
              ELSE between_result(/\ FGe(v_num.val.f, l_num.val.f)
                                  /\ FLe(v_num.val.f, h_num.val.f),
                                  negated, visited))))

\* the match of eval_between on the three evaluated operands
eval_between_values(v, l, h, negated, visited) ==
    IF is_null(v) \/ is_null(l) \/ is_null(h)
    THEN BErr(NullInOperation("BETWEEN", "cannot use NULL in BETWEEN"), visited)
    ELSE CASE v.t = "Integer" /\ l.t = "Integer" /\ h.t = "Integer" ->
                between_result(v.i >= l.i /\ v.i <= h.i, negated, visited)
           [] v.t = "Float" /\ l.t = "Float" /\ h.t = "Float" ->
                between_result(FGe(v.f, l.f) /\ FLe(v.f, h.f), negated, visited)
           [] v.t = "String" /\ l.t = "String" /\ h.t = "String" ->
                between_result(StrGe(v.s, l.s) /\ StrLe(v.s, h.s), negated, visited)
           [] OTHER -> eval_between_numeric(v, l, h, negated, visited)

eval_between(self, expr, lower, upper, negated, path) ==
    Let(eval_value(self, expr, path \o <<"expr">>), LAMBDA val :
    IF ~val.ok THEN BErr(val.err, val.visited)
    ELSE Let(eval_value(self, lower, path \o <<"lower">>), LAMBDA low :
         IF ~low.ok THEN BErr(low.err, val.visited \o low.visited)
         ELSE Let(eval_value(self, upper, path \o <<"upper">>), LAMBDA high :
              IF ~high.ok
              THEN BErr(high.err, val.visited \o low.visited \o high.visited)
              ELSE eval_between_values(val.val, low.val, high.val, negated,
                        val.visited \o low.visited \o high.visited))))

\* the `matches` of eval_in's loop body for one list element
in_matches(val, list_val) ==
    CASE val.t = "Integer" /\ list_val.t = "Integer" -> val.i = list_val.i
      [] val.t = "Float" /\ list_val.t = "Float" -> FEq(val.f, list_val.f)
      [] val.t = "Integer" /\ list_val.t = "Float" -> FEq(as_f64(val.i), list_val.f)
      [] val.t = "Float" /\ list_val.t = "Integer" -> FEq(val.f, as_f64(list_val.i))
      [] val.t = "String" /\ list_val.t = "String" -> val.s = list_val.s
      [] val.t = "Boolean" /\ list_val.t = "Boolean" -> val.b = list_val.b
      [] val.t = "Null" /\ list_val.t = "Null" -> TRUE
      [] OTHER -> FALSE

eval_in(self, expr, values, negated, path) ==
    Let(eval_value(self, expr, path \o <<"expr">>), LAMBDA val :
    IF ~val.ok THEN BErr(val.err, val.visited)
    ELSE IF is_null(val.val)
    THEN BErr(NullInOperation("IN", "cannot use NULL in IN"), val.visited)
    ELSE IF values # <<>>
            /\ ~are_types_compatible_for_in(val.val, from_literal(values[1]))
    THEN BErr(TypeError("IN", type_name(from_literal(values[1])),
                        <<type_name(val.val)>>,
                        "left operand type doesn't match list element types"),
              val.visited)
    ELSE Let(\E k \in 1..Len(values) : in_matches(val.val, from_literal(values[k])),
             LAMBDA found :
         BOk(IF negated THEN ~found ELSE found, val.visited)))

\* a null test that answers for an operand that could not be evaluated
eval_is_null_total(self, expr, negated, path) ==
    Let(eval_value(self, expr, path \o <<"expr">>), LAMBDA val :
    IF ~val.ok THEN BOk(negated, val.visited)
    ELSE BOk(IF negated THEN ~is_null(val.val) ELSE is_null(val.val), val.visited))

eval_is_null(self, expr, negated, path) ==
    Let(eval_value(self, expr, path \o <<"expr">>), LAMBDA val :
    IF ~val.ok THEN BErr(val.err, val.visited)
    ELSE BOk(IF negated THEN ~is_null(val.val) ELSE is_null(val.val), val.visited))

eval_relational(self, expr, path) ==
    CASE expr.node = "Equality" ->
            eval_equality(self, expr.left, expr.right, expr.op, path)
      [] expr.node = "Comparison" ->
            eval_comparison(self, expr.left, expr.right, expr.op, path)
      [] expr.node = "Like" ->
            eval_like(self, expr.expr, expr.pattern, expr.escape, expr.negated, path)
      [] expr.node = "Between" ->
            eval_between(self, expr.expr, expr.lower, expr.upper, expr.negated, path)
      [] expr.node = "In" -> eval_in(self, expr.expr, expr.values, expr.negated, path)
      [] expr.node = "IsNull" -> eval_is_null(self, expr.expr, expr.negated, path)

(***************************************************************************)
(* Boolean expression evaluation (evaluator.rs)                            *)
(***************************************************************************)
RECURSIVE eval_boolean(_, _, _)

\* an AND that evaluates both operands before it combines them
eval_and_eager(self, left, right, path) ==
    Let(eval_boolean(self, left, path \o <<"left">>), LAMBDA l :
    IF ~l.ok THEN l
    ELSE Let(eval_boolean(self, right, path \o <<"right">>), LAMBDA r :
         IF ~r.ok THEN [r EXCEPT !.visited = l.visited \o @]
         ELSE BOk(l.b /\ r.b, l.visited \o r.visited)))

\* BooleanExpr::And arm
eval_and(self, left, right, path) ==
    Let(eval_boolean(self, left, path \o <<"left">>), LAMBDA l :
    IF ~l.ok THEN l
    ELSE IF ~l.b THEN BOk(FALSE, l.visited)
    ELSE Let(eval_boolean(self, right, path \o <<"right">>), LAMBDA r :
         [r EXCEPT !.visited = l.visited \o @]))

\* BooleanExpr::Or arm
eval_or(self, left, right, path) ==
    Let(eval_boolean(self, left, path \o <<"left">>), LAMBDA l :
    IF ~l.ok THEN l
    ELSE IF l.b THEN BOk(TRUE, l.visited)
    ELSE Let(eval_boolean(self, right, path \o <<"right">>), LAMBDA r :
         [r EXCEPT !.visited = l.visited \o @]))

\* BooleanExpr::Not arm
eval_not(self, expr, path) ==
    Let(eval_boolean(self, expr, path \o <<"expr">>), LAMBDA e :
    IF ~e.ok THEN e ELSE BOk(~e.b, e.visited))

\* BooleanExpr::Variable arm
eval_boolean_variable(self, name) ==
    IF name \in DOMAIN self.value_map
    THEN IF self.value_map[name].t = "Boolean"
         THEN BOk(self.value_map[name].b, <<>>)
         ELSE BErr(TypeError("boolean variable", "boolean",
                             <<runtime_type_name(self.value_map[name])>>,
                             "variable"), <<>>)
    ELSE BErr(UnboundVariable(name), <<>>)

eval_boolean(self, expr, path) ==
    Visit(path,
        CASE expr.node = "BoolLiteral" -> BOk(expr.b, <<>>)
          [] expr.node = "BoolVariable" -> eval_boolean_variable(self, expr.name)
          [] expr.node = "And" -> eval_and(self, expr.left, expr.right, path)
          [] expr.node = "Or" -> eval_or(self, expr.left, expr.right, path)
          [] expr.node = "Not" -> eval_not(self, expr.expr, path)
          [] expr.node = "Relational" ->
                eval_relational(self, expr.rel, path \o <<"rel">>))

\* pub fn evaluate(input, map): Evaluator::new(input, map)?, then eval_boolean
evaluate(input, map, overflow_checks) ==
    Let(parse(input), LAMBDA ast :
    IF ~ast.ok THEN BErr(EvalParseError(ast.err), <<>>)
    ELSE eval_boolean(Evaluator(input, ast.val, map, overflow_checks),
                      ast.val, <<>>))

(***************************************************************************)
(* Text.  A string is the sequence of its character codes.  Tokens and     *)
(* nodes keep an identifier by its name; name_chars and chars_name are the *)
(* spelling of the names the inputs use, each of them one letter.          *)
(***************************************************************************)
name_chars(name) ==
    CASE name = "b" -> <<98>>
      [] name = "x" -> <<120>>
      [] name = "y" -> <<121>>
      [] name = "z" -> <<122>>

chars_name(s) ==
    CASE s = <<98>> -> "b"
      [] s = <<120>> -> "x"
      [] s = <<121>> -> "y"
      [] s = <<122>> -> "z"
      [] OTHER -> "other"

(***************************************************************************)
(* Display (ast.rs): to_string renders a node as text                      *)
(***************************************************************************)
\* the decimal digits of n >= 0
RECURSIVE digits(_)
digits(n) ==
    IF n < 10 THEN <<48 + n>> ELSE Append(digits(n \div 10), 48 + (n % 10))

\* `{}` of an i64
i64_to_string(n) == IF n < 0 THEN <<45>> \o digits(-n) ELSE digits(n)

\* the decimal digits of num / den, 0 <= num < den
RECURSIVE fraction(_, _)
fraction(num, den) ==
    IF num = 0 THEN <<>>
    ELSE <<48 + (num * 10) \div den>> \o fraction((num * 10) % den, den)

\* `{}` of an f64: the shortest decimal text that reads back as the value,
\* without a fraction when the value is integral (1.0 is written 1)
f64_to_string(q) ==
    (IF q[1] < 0 THEN <<45>> ELSE <<>>)
    \o digits(Abs(q[1]) \div q[2])
    \o (IF Abs(q[1]) % q[2] = 0 THEN <<>>
        ELSE <<46>> \o fraction(Abs(q[1]) % q[2], q[2]))

\* Display for ValueLiteral
literal_to_string(lit) ==
    CASE lit.t = "Integer" -> i64_to_string(lit.i)
      [] lit.t = "Float" -> f64_to_string(lit.f)
      [] lit.t = "String" -> <<39>> \o lit.s \o <<39>>
      [] lit.t = "Null" -> <<78, 85, 76, 76>>
      [] lit.t = "Boolean" -> IF lit.b THEN <<84, 82, 85, 69>> ELSE <<70, 65, 76, 83, 69>>

\* Display for EqualityOp and ComparisonOp
op_to_string(op) ==
    CASE op = "Equal" -> <<61>>
      [] op = "NotEqual" -> <<60, 62>>
      [] op = "GreaterThan" -> <<62>>
      [] op = "GreaterOrEqual" -> <<62, 61>>
      [] op = "LessThan" -> <<60>>
      [] op = "LessOrEqual" -> <<60, 61>>

\* the IN list: the values, separated by ", "
RECURSIVE values_to_string(_)
values_to_string(values) ==
    IF Len(values) = 1 THEN literal_to_string(values[1])
    ELSE values_to_string(SubSeq(values, 1, Len(values) - 1))
         \o <<44, 32>> \o literal_to_string(values[Len(values)])

\* Display for BooleanExpr, RelationalExpr and ValueExpr
RECURSIVE to_string(_)
to_string(e) ==
    CASE e.node = "Or" ->
            <<40>> \o to_string(e.left) \o <<32, 79, 82, 32>> \o to_string(e.right) \o <<41>>
      [] e.node = "And" ->
            <<40>> \o to_string(e.left) \o <<32, 65, 78, 68, 32>> \o to_string(e.right) \o <<41>>
      [] e.node = "Not" -> <<78, 79, 84, 32>> \o to_string(e.expr)
      [] e.node = "BoolLiteral" -> IF e.b THEN <<84, 82, 85, 69>> ELSE <<70, 65, 76, 83, 69>>
      [] e.node = "BoolVariable" -> name_chars(e.name)
      [] e.node = "Relational" -> to_string(e.rel)
      [] e.node \in {"Equality", "Comparison"} ->
            to_string(e.left) \o <<32>> \o op_to_string(e.op) \o <<32>>
            \o to_string(e.right)
      [] e.node = "Like" ->
            to_string(e.expr)
            \o (IF e.negated THEN <<32, 78, 79, 84, 32, 76, 73, 75, 69, 32, 39>> ELSE <<32, 76, 73, 75, 69, 32, 39>>)
            \o e.pattern \o <<39>>
            \o (IF e.escape = <<>> THEN <<>>
                ELSE <<32, 69, 83, 67, 65, 80, 69, 32, 39>> \o e.escape[1] \o <<39>>)
      [] e.node = "Between" ->
            to_string(e.expr)
            \o (IF e.negated THEN <<32, 78, 79, 84, 32, 66, 69, 84, 87, 69, 69, 78, 32>> ELSE <<32, 66, 69, 84, 87, 69, 69, 78, 32>>)
            \o to_string(e.lower) \o <<32, 65, 78, 68, 32>>
            \o to_string(e.upper)
      [] e.node = "In" ->
            to_string(e.expr)
            \o (IF e.negated THEN <<32, 78, 79, 84, 32, 73, 78, 32, 40>> ELSE <<32, 73, 78, 32, 40>>)
            \o values_to_string(e.values) \o <<41>>
      [] e.node = "IsNull" ->
            to_string(e.expr)
            \o (IF e.negated THEN <<32, 73, 83, 32, 78, 79, 84, 32, 78, 85, 76, 76>> ELSE <<32, 73, 83, 32, 78, 85, 76, 76>>)
      [] e.node = "Add" ->
            <<40>> \o to_string(e.left) \o <<32, 43, 32>> \o to_string(e.right) \o <<41>>
      [] e.node = "Subtract" ->
            <<40>> \o to_string(e.left) \o <<32, 45, 32>> \o to_string(e.right) \o <<41>>
      [] e.node = "Multiply" ->
            <<40>> \o to_string(e.left) \o <<32, 42, 32>> \o to_string(e.right) \o <<41>>
      [] e.node = "Divide" ->
            <<40>> \o to_string(e.left) \o <<32, 47, 32>> \o to_string(e.right) \o <<41>>
      [] e.node = "Modulo" ->
            <<40>> \o to_string(e.left) \o <<32, 37, 32>> \o to_string(e.right) \o <<41>>
      [] e.node = "UnaryPlus" -> <<43>> \o to_string(e.expr)
      [] e.node = "UnaryMinus" -> <<45>> \o to_string(e.expr)
      [] e.node = "Literal" -> literal_to_string(e.lit)
      [] e.node = "Variable" -> name_chars(e.name)

(***************************************************************************)
(* Lexer (lexer.rs).  The lexer's state is the input and a position in     *)
(* it; an Option<char> is <<>> for None and <<c>> for Some(c).  A literal  *)
(* is read to its exact decimal value.                                     *)
(***************************************************************************)
current_char(input, position) ==
    IF position < Len(input) THEN <<input[position + 1]>> ELSE <<>>

peek(input, position) ==
    IF position + 1 < Len(input) THEN <<input[position + 2]>> ELSE <<>>

\* "{message} near position {position} in: {input}"
format_error(message, position) == ParseError(message, position, TRUE)

is_whitespace(c) == c \in {9, 10, 11, 12, 13, 32}
is_ascii_digit(c) == c \in 48..57
is_ascii_hexdigit(c) == c \in (48..57) \cup (65..70) \cup (97..102)
is_alphabetic(c) == c \in (65..90) \cup (97..122)
to_uppercase(s) == [i \in 1..Len(s) |-> IF s[i] \in 97..122 THEN s[i] - 32 ELSE s[i]]

RECURSIVE skip_whitespace(_, _)
skip_whitespace(input, position) ==
    IF position < Len(input) /\ is_whitespace(input[position + 1])
    THEN skip_whitespace(input, position + 1)
    ELSE position

\* the loop of skip_line_comment: up to and over the next line feed
RECURSIVE skip_line(_, _)
skip_line(input, position) ==
    IF position >= Len(input) THEN position
    ELSE IF input[position + 1] = LineFeed THEN position + 1
    ELSE skip_line(input, position + 1)

skip_line_comment(input, position) == skip_line(input, position + 2)

\* the loop of skip_block_comment
RECURSIVE skip_block(_, _)
skip_block(input, position) ==
    IF position >= Len(input)
    THEN PErr(format_error("Unterminated block comment", position))
    ELSE IF input[position + 1] = 42 /\ peek(input, position) = <<47>>
    THEN POk(position + 2, NoNode)
    ELSE skip_block(input, position + 1)

skip_block_comment(input, position) == skip_block(input, position + 2)

\* the characters from position on that are in class, and where they end
RECURSIVE read_while(_, _, _, _)
read_while(input, position, class, result) ==
    IF position < Len(input) /\ input[position + 1] \in class
    THEN read_while(input, position + 1, class,
                    Append(result, input[position + 1]))
    ELSE POk(position, result)

read_identifier(input, position) ==
    read_while(input, position,
               (48..57) \cup (65..90) \cup (97..122) \cup {95, 36}, <<>>)

keyword_or_identifier(s) ==
    Let(to_uppercase(s), LAMBDA u :
    CASE u = <<65, 78, 68>> -> T_And
      [] u = <<79, 82>> -> T_Or
      [] u = <<78, 79, 84>> -> T_Not
      [] u = <<66, 69, 84, 87, 69, 69, 78>> -> T_Between
      [] u = <<76, 73, 75, 69>> -> T_Like
      [] u = <<69, 83, 67, 65, 80, 69>> -> T_Escape
      [] u = <<73, 78>> -> T_In
      [] u = <<73, 83>> -> T_Is
      [] u = <<84, 82, 85, 69>> -> T_True
      [] u = <<70, 65, 76, 83, 69>> -> T_False
      [] u = <<78, 85, 76, 76>> -> T_Null
      [] OTHER -> Identifier(chars_name(s)))

\* the loop of read_string_literal, after the opening quote
RECURSIVE read_string(_, _, _)
read_string(input, position, result) ==
    IF position >= Len(input)
    THEN PErr(format_error("Unterminated string literal", position))
    ELSE IF input[position + 1] = 39
    THEN IF peek(input, position) = <<39>>
         THEN read_string(input, position + 2, Append(result, 39))
         ELSE POk(position + 1, result)
    ELSE read_string(input, position + 1, Append(result, input[position + 1]))

read_string_literal(input, position) == read_string(input, position + 1, <<>>)

\* the value of one digit, of any radix up to 16
digit_value(c) ==
    IF c \in 48..57 THEN c - 48 ELSE IF c \in 65..70 THEN c - 55 ELSE c - 87

\* the number that the digits spell in the radix
RECURSIVE digits_value(_, _)
digits_value(ds, radix) ==
    IF ds = <<>> THEN 0
    ELSE digits_value(SubSeq(ds, 1, Len(ds) - 1), radix) * radix
         + digit_value(ds[Len(ds)])

\* str::parse::<i64> and i64::from_str_radix: Err when the number does not
\* fit the integer type
parse_i64(ds, radix, position, what) ==
    IF ds = <<>> \/ digits_value(ds, radix) > I64_MAX
    THEN PErr(format_error(what, position))
    ELSE POk(position, IntegerLiteral(digits_value(ds, radix)))

\* 10 to the power n
RECURSIVE pow10(_)
pow10(n) == IF n = 0 THEN 1 ELSE 10 * pow10(n - 1)

\* str::parse::<f64> of "{int}.{frac}e{exp}"; Err when the exponent has no
\* digit
parse_f64(int, frac, has_exp, negative_exp, exp, position) ==
    IF has_exp /\ exp = <<>>
    THEN PErr(format_error("Invalid float literal", position))
    ELSE Let(IF has_exp THEN digits_value(exp, 10) ELSE 0, LAMBDA e :
         POk(position,
             FloatLiteral(
                 F(digits_value(int \o frac, 10)
                      * (IF negative_exp THEN 1 ELSE pow10(e)),
                   pow10(Len(frac)) * (IF negative_exp THEN pow10(e) ELSE 1)))))

\* "Check for exponent": is there one, its sign, its digits, where it ends
read_exponent(input, position) ==
    IF current_char(input, position) \in {<<101>>, <<69>>}
    THEN Let(current_char(input, position + 1) \in {<<43>>, <<45>>}, LAMBDA signed :
         Let(read_while(input, position + (IF signed THEN 2 ELSE 1),
                        48..57, <<>>), LAMBDA ds :
         [has_exp |-> TRUE,
          negative_exp |-> current_char(input, position + 1) = <<45>>,
          exp |-> ds.val, pos |-> ds.pos]))
    ELSE [has_exp |-> FALSE, negative_exp |-> FALSE, exp |-> <<>>,
          pos |-> position]

read_hex_literal(input, position) ==
    Let(read_while(input, position + 2,
                   (48..57) \cup (65..70) \cup (97..102), <<>>), LAMBDA hex_str :
    IF hex_str.val = <<>>
    THEN PErr(format_error("Invalid hexadecimal literal: no digits after 0x",
                           hex_str.pos))
    ELSE parse_i64(hex_str.val, 16, hex_str.pos, "Invalid hexadecimal literal"))

read_octal_literal(input, position) ==
    Let(read_while(input, position, 48..55, <<>>), LAMBDA octal_str :
    parse_i64(octal_str.val, 8, octal_str.pos, "Invalid octal literal"))

read_float_starting_with_dot(input, position) ==
    Let(read_while(input, position + 1, 48..57, <<>>), LAMBDA frac :
    Let(read_exponent(input, frac.pos), LAMBDA ex :
    parse_f64(<<48>>, frac.val, ex.has_exp, ex.negative_exp, ex.exp, ex.pos)))

read_number(input, position) ==
    IF current_char(input, position) = <<48>>
       /\ peek(input, position) \in {<<120>>, <<88>>}
    THEN read_hex_literal(input, position)
    ELSE IF current_char(input, position) = <<48>>
            /\ peek(input, position) # <<>>
            /\ is_ascii_digit(peek(input, position)[1])
    THEN read_octal_literal(input, position)
    ELSE Let(read_while(input, position, 48..57, <<>>), LAMBDA int :
         Let(/\ current_char(input, int.pos) = <<46>>
             /\ peek(input, int.pos) # <<>>
             /\ peek(input, int.pos)[1] \in (48..57) \cup {101, 69}, LAMBDA dot :
         Let(IF dot THEN read_while(input, int.pos + 1, 48..57, <<>>)
             ELSE POk(int.pos, <<>>), LAMBDA frac :
         Let(read_exponent(input, frac.pos), LAMBDA ex :
         IF dot \/ ex.has_exp
         THEN parse_f64(int.val, frac.val, ex.has_exp, ex.negative_exp,
                        ex.exp, ex.pos)
         ELSE IF current_char(input, ex.pos) \in {<<108>>, <<76>>}
         THEN parse_i64(int.val, 10, ex.pos + 1, "Invalid integer literal")
         ELSE parse_i64(int.val, 10, ex.pos, "Invalid integer literal")))))

\* the match on the current character, comments and whitespace skipped
single_token(input, p, ch) ==
    CASE ch = 40 -> POk(p + 1, T_LeftParen)
      [] ch = 41 -> POk(p + 1, T_RightParen)
      [] ch = 44 -> POk(p + 1, T_Comma)
      [] ch = 43 -> POk(p + 1, T_Plus)
      [] ch = 45 -> POk(p + 1, T_Minus)
      [] ch = 42 -> POk(p + 1, T_Star)
      [] ch = 47 -> POk(p + 1, T_Slash)
      [] ch = 37 -> POk(p + 1, T_Percent)
      [] ch = 61 -> POk(p + 1, T_Equal)
      [] ch = 33 ->
            IF peek(input, p) = <<61>> THEN POk(p + 2, T_NotEqual)
            ELSE PErr(format_error("Unexpected character", p))
      [] ch = 60 ->
            IF peek(input, p) = <<62>> THEN POk(p + 2, T_NotEqual)
            ELSE IF peek(input, p) = <<61>> THEN POk(p + 2, T_LessOrEqual)
            ELSE POk(p + 1, T_LessThan)
      [] ch = 62 ->
            IF peek(input, p) = <<61>> THEN POk(p + 2, T_GreaterOrEqual)
            ELSE POk(p + 1, T_GreaterThan)
      [] ch = 39 ->
            Try(read_string_literal(input, p), LAMBDA s :
            POk(s.pos, StringLiteral(s.val)))
      [] ch = 46 ->
            IF peek(input, p) # <<>> /\ is_ascii_digit(peek(input, p)[1])
            THEN read_float_starting_with_dot(input, p)
            ELSE PErr(format_error("Unexpected character", p))
      [] OTHER ->
            IF is_alphabetic(ch) \/ ch \in {95, 36}
            THEN Let(read_identifier(input, p), LAMBDA ident :
                 POk(ident.pos, keyword_or_identifier(ident.val)))
            ELSE IF is_ascii_digit(ch) THEN read_number(input, p)
            ELSE PErr(format_error("Unexpected character", p))

RECURSIVE next_token(_, _)
next_token(input, position) ==
    Let(skip_whitespace(input, position), LAMBDA p :
    IF p >= Len(input) THEN POk(p, Eof)
    ELSE IF input[p + 1] = 45 /\ peek(input, p) = <<45>>
    THEN next_token(input, skip_line_comment(input, p))
    ELSE IF input[p + 1] = 47 /\ peek(input, p) = <<42>>
    THEN Try(skip_block_comment(input, p), LAMBDA c : next_token(input, c.pos))
    ELSE single_token(input, p, input[p + 1]))

\* a tokenize loop that stops at Eof without pushing it
RECURSIVE tokenize_loop_no_eof(_, _, _)
tokenize_loop_no_eof(input, position, toks) ==
    Try(next_token(input, position), LAMBDA token :
    IF token.val = Eof THEN POk(token.pos, toks)
    ELSE tokenize_loop_no_eof(input, token.pos, Append(toks, token.val)))

\* the loop of tokenize, entered with the tokens read so far
RECURSIVE tokenize_loop(_, _, _)
tokenize_loop(input, position, toks) ==
    Try(next_token(input, position), LAMBDA token :
    IF token.val = Eof THEN POk(token.pos, Append(toks, token.val))
    ELSE tokenize_loop(input, token.pos, Append(toks, token.val)))

tokenize(input) == tokenize_loop(input, 0, <<>>)

\* pub fn parse(input: &str): Parser::new(input), which tokenizes the input,
\* and then Parser::parse
parse_input(input) ==
    Try(tokenize(input), LAMBDA lexed : Parser_parse(lexed.val))

(***************************************************************************)
(* The state machine: a caller holds an input (its token vector) and a     *)
(* map of bindings, and calls parse(input) and evaluate(input, map).       *)
(***************************************************************************)
NotParsed == [called |-> FALSE, res |-> PErr(NoError)]
NotEvaluated == [called |-> FALSE, res |-> BErr(NoEvalError, <<>>)]
NotRendered == [called |-> FALSE, text |-> <<>>, res |-> PErr(NoError)]

\* the caller calls parse(input)
Parse ==
    /\ ~parse_result.called
    /\ parse_result' = [called |-> TRUE, res |-> parse(tokens)]
    /\ UNCHANGED <<tokens, value_map, eval_result, rendered>>

\* the caller calls evaluate(input, map), in a build with or without
\* overflow checks
Evaluate ==
    /\ ~eval_result.called
    /\ \E overflow_checks \in BOOLEAN :
         eval_result' = [called |-> TRUE,
                         res |-> evaluate(tokens, value_map, overflow_checks)]
    /\ UNCHANGED <<tokens, value_map, parse_result, rendered>>

Next == Parse \/ Evaluate

\* the caller renders the AST that parse returned (ast.to_string()) and
\* calls parse on the text
Render ==
    /\ parse_result.called /\ parse_result.res.ok
    /\ ~rendered.called
    /\ rendered' = [called |-> TRUE,
                    text |-> to_string(parse_result.res.val),
                    res |-> parse_input(to_string(parse_result.res.val))]
    /\ UNCHANGED <<tokens, value_map, parse_result, eval_result>>

NextDisplay == Parse \/ Evaluate \/ Render

(***************************************************************************)
(* Inputs.  Bounds of the model, and the literals and names drawn.         *)
(***************************************************************************)
MaxTokens == 5

\* character codes
\* the strings 'a', 'ab' and 'b', as character codes
Str_a == <<97>>
Str_ab == <<97, 98>>
Str_b == <<98>>

\* a map binds each name of its domain to a RuntimeValue
EmptyMap == [n \in {} |-> Null]
Bind(names, v) == [n \in names |-> v]

\* toks is a token vector of at most n tokens over the alphabet, closed by
\* Eof as Lexer::tokenize closes it
IsTokenVector(toks, alphabet, n) ==
    \E k \in 0..n : \E ts \in [1..k -> alphabet] : toks = Append(ts, Eof)

CoreAlphabet ==
    {Identifier("x"), IntegerLiteral(1), T_True, T_LeftParen, T_RightParen,
     T_Equal, T_Plus, T_Not, T_And}

CoreMaps == {Bind({"x"}, Boolean(TRUE))}

Init ==
    /\ IsTokenVector(tokens, CoreAlphabet, MaxTokens)
    /\ value_map \in CoreMaps
    /\ parse_result = NotParsed
    /\ eval_result = NotEvaluated
    /\ rendered = NotRendered

Spec == Init /\ [][Next]_vars

(***************************************************************************)
(* Inputs term OP term OP term, OP in {AND, OR}: the terms are all the     *)
(* token sequences of at most MaxTermLen tokens that parse_boolean_term    *)
(* consumes entirely.                                                      *)
(***************************************************************************)
MaxTermLen == 3

TermAlphabet == {Identifier("x"), T_True, T_False, T_Not,
                 T_LeftParen, T_RightParen, T_Equal}

\* the term a token sequence is, when parse_boolean_term consumes all of it
TermOf(seq) ==
    Let(parse_boolean_term(Append(seq, Eof), 0), LAMBDA r :
    [ok |-> r.ok /\ r.pos = Len(seq), val |-> r.val])

Terms ==
    UNION {{seq \in [1..k -> TermAlphabet] : TermOf(seq).ok} : k \in 1..MaxTermLen}

PrecedenceMaps == {EmptyMap, Bind({"x"}, Boolean(FALSE))}

InitPrecedence ==
    /\ \E t1 \in Terms, t2 \in Terms, t3 \in Terms :
         \E op1 \in {T_And, T_Or}, op2 \in {T_And, T_Or} :
            tokens = t1 \o <<op1>> \o t2 \o <<op2>> \o t3 \o <<Eof>>
    /\ value_map \in PrecedenceMaps
    /\ parse_result = NotParsed
    /\ eval_result = NotEvaluated
    /\ rendered = NotRendered

SpecPrecedence == InitPrecedence /\ [][Next]_vars

(***************************************************************************)
(* Inputs x [NOT] BETWEEN bound AND bound.  A bound is a literal token,    *)
(* bare or inside parentheses, with or without a sign inside them, under   *)
(* at most MaxSigns unary signs; or a variable; or a sum of literals.      *)
(***************************************************************************)
MaxSigns == 2

BoundLiterals ==
    {IntegerLiteral(1), FloatLiteral(F(3, 2)), StringLiteral(Str_a),
     StringLiteral(Str_ab), T_Null, T_True}

SignSeqs == UNION {[1..k -> {T_Plus, T_Minus}] : k \in 0..MaxSigns}

BoundCores(l) == {<<l>>, <<T_LeftParen, l, T_RightParen>>,
                  <<T_LeftParen, T_Minus, l, T_RightParen>>}

Bounds ==
    {signs \o core : signs \in SignSeqs,
                     core \in UNION {BoundCores(l) : l \in BoundLiterals}}
    \union {<<Identifier("y")>>,
            <<IntegerLiteral(1), T_Plus, IntegerLiteral(1)>>}

InitBetween ==
    /\ \E lower \in Bounds, upper \in Bounds :
         \E negation \in {<<>>, <<T_Not>>} :
            tokens = <<Identifier("x")>> \o negation \o <<T_Between>> \o lower
                     \o <<T_And>> \o upper \o <<Eof>>
    /\ value_map = Bind({"x"}, Integer(1))
    /\ parse_result = NotParsed
    /\ eval_result = NotEvaluated
    /\ rendered = NotRendered

SpecBetween == InitBetween /\ [][Next]_vars

(***************************************************************************)
(* Inputs x [NOT] IN ( list ) [OR x IN ( list )]: the first list has at    *)
(* most MaxListLen elements, the second at most one.                       *)
(***************************************************************************)
MaxListLen == 3

InElements ==
    {<<IntegerLiteral(1)>>, <<IntegerLiteral(2)>>, <<T_Minus, IntegerLiteral(1)>>,
     <<FloatLiteral(F(3, 2))>>, <<StringLiteral(Str_a)>>, <<StringLiteral(Str_b)>>,
     <<T_Null>>, <<T_True>>}

\* the elements of es, separated by commas
RECURSIVE CommaSeparated(_)
CommaSeparated(es) ==
    IF Len(es) = 0 THEN <<>>
    ELSE IF Len(es) = 1 THEN es[1]
    ELSE es[1] \o <<T_Comma>> \o CommaSeparated(Tail(es))

InClause(negation, es) ==
    <<Identifier("x")>> \o negation \o <<T_In, T_LeftParen>>
    \o CommaSeparated(es) \o <<T_RightParen>>

InitIn ==
    /\ \E k \in 0..MaxListLen : \E es \in [1..k -> InElements] :
         \E negation \in {<<>>, <<T_Not>>} :
            \E second \in {<<>>} \union {<<T_Or>> \o InClause(<<>>, fs) :
                                            fs \in [1..0 -> InElements]
                                                   \union [1..1 -> InElements]} :
               tokens = InClause(negation, es) \o second \o <<Eof>>
    /\ value_map = Bind({"x"}, Integer(1))
    /\ parse_result = NotParsed
    /\ eval_result = NotEvaluated
    /\ rendered = NotRendered

SpecIn == InitIn /\ [][Next]_vars

(***************************************************************************)
(* Inputs for evaluation: at most MaxOperands atoms joined by AND and OR,  *)
(* the last two optionally in parentheses, under bindings that leave       *)
(* variables unbound, of the wrong type or NULL.                           *)
(***************************************************************************)
MaxOperands == 3

EvalAtoms ==
    {<<T_True>>, <<T_False>>, <<Identifier("b")>>, <<T_Not, Identifier("b")>>,
     <<IntegerLiteral(1), T_Slash, Identifier("y"), T_Equal, Identifier("x")>>}

EvalMaps ==
    {EmptyMap,
     [b |-> Boolean(TRUE)],
     [b |-> Boolean(TRUE), x |-> Integer(1), y |-> Integer(0)],
     [b |-> Boolean(FALSE), x |-> Integer(1), y |-> String(Str_a)],
     [b |-> Integer(1), x |-> Null, y |-> Integer(1)],
     [b |-> Boolean(FALSE), x |-> Integer(1), y |-> Integer(1)]}

\* the atoms joined by the operators, one operator between two atoms
RECURSIVE Chain(_, _)
Chain(atoms, ops) ==
    IF Len(atoms) = 1 THEN atoms[1]
    ELSE atoms[1] \o <<ops[1]>> \o Chain(Tail(atoms), Tail(ops))

\* the same, with the last two atoms in parentheses
Grouped(atoms, ops) ==
    LET n == Len(atoms)
    IN  Chain(SubSeq(atoms, 1, n - 2)
                 \o << <<T_LeftParen>> \o atoms[n - 1] \o <<ops[n - 1]>>
                       \o atoms[n] \o <<T_RightParen>> >>,
              SubSeq(ops, 1, n - 2))

InitEval ==
    /\ \E n \in 1..MaxOperands :
         \E atoms \in [1..n -> EvalAtoms], ops \in [1..(n - 1) -> {T_And, T_Or}] :
            \/ tokens = Chain(atoms, ops) \o <<Eof>>
            \/ n >= 2 /\ tokens = Grouped(atoms, ops) \o <<Eof>>
    /\ value_map \in EvalMaps
    /\ parse_result = NotParsed
    /\ eval_result = NotEvaluated
    /\ rendered = NotRendered

SpecEval == InitEval /\ [][Next]_vars

(***************************************************************************)
(* Operators on operands of every type.  The input is one relational       *)
(* expression over the variables x and y and literals; an arithmetic       *)
(* expression is compared with a numeric literal.  x and y are bound to    *)
(* values of every type; z is never bound.                                 *)
(***************************************************************************)
OperandValues ==
    {Integer(10), Integer(4), Integer(0), Float(F(5, 2)), Float(FZero),
     String(Str_a), Boolean(TRUE), Null}

OperatorMaps == {[x |-> vx, y |-> vy] : vx \in OperandValues, vy \in OperandValues}

Operands ==
    {<<Identifier("x")>>, <<Identifier("y")>>, <<IntegerLiteral(0)>>,
     <<FloatLiteral(FZero)>>, <<StringLiteral(Str_a)>>, <<StringLiteral(Str_ab)>>,
     <<T_True>>}

ArithmeticOperands ==
    {<<Identifier("x")>>, <<Identifier("y")>>, <<IntegerLiteral(0)>>,
     <<FloatLiteral(FZero)>>, <<StringLiteral(Str_a)>>}

EqualityTokens == {T_Equal, T_NotEqual}
OrderingTokens == {T_GreaterThan, T_GreaterOrEqual, T_LessThan, T_LessOrEqual}
ArithmeticTokens == {T_Plus, T_Minus, T_Star, T_Slash, T_Percent}
Comparands == {<<IntegerLiteral(2)>>, <<FloatLiteral(F(5, 2))>>}

\* the operands IS NULL is applied to: an operand, the unbound z, a quotient
NullTestOperands ==
    Operands \union {<<Identifier("z")>>,
                     <<Identifier("x"), T_Slash, Identifier("y")>>}

OperatorInputs ==
    {l \o <<op>> \o r :
        l \in Operands, op \in EqualityTokens \union OrderingTokens, r \in Operands}
    \union
    {l \o <<op>> \o r \o <<T_Equal>> \o c :
        l \in ArithmeticOperands, op \in ArithmeticTokens,
        r \in ArithmeticOperands, c \in Comparands}
    \union
    {<<sign>> \o e \o <<T_Equal>> \o c :
        sign \in {T_Plus, T_Minus}, e \in Operands, c \in Comparands}
    \union
    {e \o negation \o tail :
        e \in {<<Identifier("x")>>, <<Identifier("y")>>},
        negation \in {<<>>, <<T_Not>>},
        tail \in {<<T_Like, StringLiteral(Str_a)>>,
                  <<T_Between, IntegerLiteral(0), T_And, IntegerLiteral(2)>>,
                  <<T_In, T_LeftParen, IntegerLiteral(0), T_Comma,
                    IntegerLiteral(2), T_RightParen>>}}
    \union
    {e \o <<T_Is>> \o negation \o <<T_Null>> :
        e \in NullTestOperands, negation \in {<<>>, <<T_Not>>}}

InitOperators ==
    /\ \E input \in OperatorInputs : tokens = Append(input, Eof)
    /\ value_map \in OperatorMaps
    /\ parse_result = NotParsed
    /\ eval_result = NotEvaluated
    /\ rendered = NotRendered

SpecOperators == InitOperators /\ [][Next]_vars

(***************************************************************************)
(* LIKE.  The input is x [NOT] LIKE 'pattern' [ESCAPE 'b'], and x is bound *)
(* to a String.  Patterns are made of a, b, % and _; values of a, % and    *)
(* the line feed.                                                          *)
(***************************************************************************)
MaxPatternLen == 3
MaxValueLen == 2

PatternChars == {Str_a[1], Str_b[1], Percent, Underscore}
ValueChars == {Str_a[1], Percent, LineFeed}

\* the sequences of at most n elements of a set
SeqsUpTo(elements, n) == UNION {[1..k -> elements] : k \in 0..n}

LikeInputs ==
    {<<Identifier("x")>> \o negation \o <<T_Like, StringLiteral(p)>> \o escape :
        negation \in {<<>>, <<T_Not>>},
        p \in SeqsUpTo(PatternChars, MaxPatternLen),
        escape \in {<<>>, <<T_Escape, StringLiteral(Str_b)>>}}

InitLike ==
    /\ \E input \in LikeInputs : tokens = Append(input, Eof)
    /\ \E s \in SeqsUpTo(ValueChars, MaxValueLen) : value_map = [x |-> String(s)]
    /\ parse_result = NotParsed
    /\ eval_result = NotEvaluated
    /\ rendered = NotRendered

SpecLike == InitLike /\ [][Next]_vars

(***************************************************************************)
(* IN and BETWEEN on tested values of every type.  The input is            *)
(* x [NOT] IN (list) or x [NOT] BETWEEN lower AND upper over literals, and *)
(* x is bound to a value of any type.                                      *)
(***************************************************************************)
MembershipLiterals ==
    {IntegerLiteral(6), IntegerLiteral(7), IntegerLiteral(8),
     FloatLiteral(F(15, 2)), StringLiteral(Str_a), StringLiteral(Str_b)}

RangeLiterals ==
    {IntegerLiteral(6), IntegerLiteral(8), FloatLiteral(F(6, 1)),
     FloatLiteral(F(15, 2)), StringLiteral(Str_a), StringLiteral(Str_b)}

TestedValues ==
    {Integer(6), Integer(7), Integer(8), Integer(9), Float(F(6, 1)),
     Float(F(15, 2)), Float(F(8, 1)), String(Str_a), String(Str_ab),
     String(Str_b), Boolean(TRUE), Null}

MembershipInputs ==
    {<<Identifier("x")>> \o negation \o <<T_In, T_LeftParen>>
        \o CommaSeparated([k \in 1..Len(es) |-> <<es[k]>>]) \o <<T_RightParen>> :
        negation \in {<<>>, <<T_Not>>},
        es \in SeqsUpTo(MembershipLiterals, MaxListLen) \ {<<>>}}
    \union
    {<<Identifier("x"), T_In, T_LeftParen, IntegerLiteral(6), T_Comma,
       FloatLiteral(F(7, 1)), T_Comma, IntegerLiteral(8), T_RightParen>>}

RangeInputs ==
    {<<Identifier("x")>> \o negation \o <<T_Between, lower, T_And, upper>> :
        negation \in {<<>>, <<T_Not>>},
        lower \in RangeLiterals, upper \in RangeLiterals}

InitMembership ==
    /\ \E input \in MembershipInputs \union RangeInputs : tokens = Append(input, Eof)
    /\ \E v \in TestedValues : value_map = [x |-> v]
    /\ parse_result = NotParsed
    /\ eval_result = NotEvaluated
    /\ rendered = NotRendered

SpecMembership == InitMembership /\ [][Next]_vars

(***************************************************************************)
(* Integer arithmetic at the ends of the range.  The input is              *)
(* x op r = 0 or -x = 0, and x and y are bound to Integers at and near the *)
(* ends of the range.                                                      *)
(***************************************************************************)
EdgeIntegers == {Integer(I64_MIN), Integer(I64_MAX), Integer(-1), Integer(0), Integer(1)}

EdgeMaps == {[x |-> vx, y |-> vy] : vx \in EdgeIntegers, vy \in EdgeIntegers}

EdgeInputs ==
    {<<Identifier("x"), op>> \o r \o <<T_Equal, IntegerLiteral(0)>> :
        op \in ArithmeticTokens,
        r \in {<<Identifier("y")>>, <<IntegerLiteral(1)>>, <<IntegerLiteral(2)>>}}
    \union
    {<<T_Minus, Identifier("x"), T_Equal, IntegerLiteral(0)>>}

InitOverflow ==
    /\ \E input \in EdgeInputs : tokens = Append(input, Eof)
    /\ value_map \in EdgeMaps
    /\ parse_result = NotParsed
    /\ eval_result = NotEvaluated
    /\ rendered = NotRendered

SpecOverflow == InitOverflow /\ [][Next]_vars

(***************************************************************************)
(* Inputs whose AST is rendered and parsed again (SpecDisplay): relational *)
(* expressions over value expressions with signs, literals of each type    *)
(* (a Float with an integral value, a String holding a quote), LIKE,       *)
(* BETWEEN with signed bounds, IN lists, and their boolean combinations.   *)
(***************************************************************************)
Str_quote == <<39>>

DisplayLiterals ==
    {IntegerLiteral(1), FloatLiteral(F(1, 1)), FloatLiteral(F(5, 2)),
     StringLiteral(Str_a), StringLiteral(Str_quote)}

DisplayValues ==
    {<<l>> : l \in DisplayLiterals}
    \union
    {<<Identifier("x")>>,
     <<T_Minus, Identifier("x")>>,
     <<T_Minus, T_Minus, Identifier("x")>>,
     <<T_Plus, T_Minus, Identifier("x")>>,
     <<T_Minus, IntegerLiteral(1)>>,
     <<Identifier("x"), T_Plus, IntegerLiteral(1)>>,
     <<Identifier("x"), T_Minus, T_Minus, IntegerLiteral(1)>>,
     <<T_LeftParen, Identifier("x"), T_Plus, IntegerLiteral(1), T_RightParen,
       T_Star, FloatLiteral(F(5, 2))>>}

DisplayBounds ==
    {signs \o <<l>> : signs \in {<<>>, <<T_Plus>>, <<T_Minus>>},
                      l \in {IntegerLiteral(1), FloatLiteral(F(1, 1)),
                             FloatLiteral(F(5, 2))}}
    \union {<<StringLiteral(Str_a)>>, <<StringLiteral(Str_quote)>>}

DisplayRelations ==
    {v \o <<op>> \o w : v \in DisplayValues, w \in DisplayValues,
                        op \in {T_Equal, T_LessOrEqual}}
    \union
    {<<Identifier("x")>> \o negation \o <<T_Like, StringLiteral(p)>> \o escape :
        negation \in {<<>>, <<T_Not>>},
        p \in {Str_a, Str_quote, <<Percent>>},
        escape \in {<<>>, <<T_Escape, StringLiteral(Str_b)>>,
                    <<T_Escape, StringLiteral(Str_quote)>>}}
    \union
    {<<Identifier("x")>> \o negation \o <<T_Between>> \o lower \o <<T_And>> \o upper :
        negation \in {<<>>, <<T_Not>>},
        lower \in DisplayBounds, upper \in DisplayBounds}
    \union
    {<<Identifier("x")>> \o negation \o <<T_In, T_LeftParen>>
     \o CommaSeparated([i \in DOMAIN es |-> <<es[i]>>]) \o <<T_RightParen>> :
        negation \in {<<>>, <<T_Not>>},
        es \in SeqsUpTo(DisplayLiterals, MaxListLen) \ {<<>>}}
    \union
    {<<Identifier("x"), T_Is>> \o negation \o <<T_Null>> :
        negation \in {<<>>, <<T_Not>>}}

DisplayAtoms ==
    {<<T_True>>, <<Identifier("x")>>,
     <<Identifier("x"), T_Equal, FloatLiteral(F(5, 2))>>,
     <<Identifier("x"), T_Is, T_Null>>}

DisplayInputs ==
    DisplayRelations
    \union DisplayAtoms
    \union {<<T_Not>> \o a : a \in DisplayAtoms}
    \union {a \o <<op>> \o b : a \in DisplayAtoms, b \in DisplayAtoms,
                               op \in {T_And, T_Or}}
    \union {a \o <<T_Or>> \o b \o <<T_And>> \o c :
               a \in DisplayAtoms, b \in DisplayAtoms, c \in DisplayAtoms}
    \union {<<T_LeftParen>> \o a \o <<T_Or>> \o b \o <<T_RightParen, T_And>> \o c :
               a \in DisplayAtoms, b \in DisplayAtoms, c \in DisplayAtoms}

InitDisplay ==
    /\ \E input \in DisplayInputs : tokens = Append(input, Eof)
    /\ value_map \in {Bind({"x"}, Integer(1))}
    /\ parse_result = NotParsed
    /\ eval_result = NotEvaluated
    /\ rendered = NotRendered

SpecDisplay == InitDisplay /\ [][NextDisplay]_vars

(***************************************************************************)
(* Inputs that open with a parenthesis (SpecParen): ( body ) tail, with    *)
(* and without the closing parenthesis, optionally after NOT.  The bodies  *)
(* are value expressions, boolean expressions and fragments of them.       *)
(***************************************************************************)
ParenBodies ==
    {<<Identifier("x")>>,
     <<IntegerLiteral(5)>>,
     <<T_True>>,
     <<T_Not, Identifier("x")>>,
     <<Identifier("x"), T_Plus, Identifier("y")>>,
     <<Identifier("x"), T_GreaterThan, IntegerLiteral(5)>>,
     <<Identifier("x"), T_GreaterThan>>,
     <<Identifier("x"), T_Plus, Identifier("y"), T_GreaterThan, IntegerLiteral(5)>>,
     <<Identifier("x"), T_GreaterThan, IntegerLiteral(5), T_And,
       Identifier("y"), T_LessThan, IntegerLiteral(10)>>,
     <<T_LeftParen, Identifier("x"), T_Plus, Identifier("y"), T_RightParen>>,
     <<T_LeftParen, Identifier("x"), T_GreaterThan, IntegerLiteral(5), T_RightParen>>,
     <<T_LeftParen, Identifier("x"), T_Plus, Identifier("y"), T_RightParen,
       T_Star, IntegerLiteral(5)>>}

ParenTails ==
    {<<>>,
     <<T_GreaterThan, IntegerLiteral(10)>>,
     <<T_Star, IntegerLiteral(5), T_GreaterThan, IntegerLiteral(10)>>,
     <<T_And, Identifier("y")>>,
     <<T_Or, T_True>>,
     <<T_GreaterThan>>,
     <<T_RightParen>>,
     <<T_Is, T_Null>>}

ParenInputs ==
    {negation \o <<T_LeftParen>> \o body \o close \o tail :
        negation \in {<<>>, <<T_Not>>},
        body \in ParenBodies,
        close \in {<<T_RightParen>>, <<>>},
        tail \in ParenTails}

InitParen ==
    /\ \E input \in ParenInputs : tokens = Append(input, Eof)
    /\ value_map \in {[x |-> Integer(7), y |-> Integer(5)]}
    /\ parse_result = NotParsed
    /\ eval_result = NotEvaluated
    /\ rendered = NotRendered

SpecParen == InitParen /\ [][Next]_vars

(***************************************************************************)
(* Binary nodes whose operands fail in more than one way (SpecErrors).     *)
(* The input is l op r for = <> > <, or l op r = 1 for an arithmetic op,   *)
(* over the variables x and y, bound to values of several types, and z     *)
(* and b, never bound.                                                     *)
(***************************************************************************)
ErrorOperands ==
    {Identifier("x"), Identifier("y"), Identifier("z"), Identifier("b")}

ErrorValues == {Null, Integer(0), Integer(4), String(Str_a)}

ErrorInputs ==
    {<<l, op, r>> :
        l \in ErrorOperands, r \in ErrorOperands,
        op \in {T_Equal, T_NotEqual, T_GreaterThan, T_LessThan}}
    \union
    {<<l, op, r, T_Equal, IntegerLiteral(1)>> :
        l \in ErrorOperands, r \in ErrorOperands, op \in ArithmeticTokens}

InitErrors ==
    /\ \E input \in ErrorInputs : tokens = Append(input, Eof)
    /\ value_map \in {[x |-> vx, y |-> vy] : vx \in ErrorValues, vy \in ErrorValues}
    /\ parse_result = NotParsed
    /\ eval_result = NotEvaluated
    /\ rendered = NotRendered

SpecErrors == InitErrors /\ [][Next]_vars

(***************************************************************************)
(* Negated and plain forms side by side (SpecNegated).  The input is       *)
(* e [NOT] LIKE ..., e [NOT] BETWEEN ... or e [NOT] IN (...), with tails   *)
(* that parse and tails that do not, over a tested expression that is a    *)
(* bound variable, an unbound one or a quotient.                           *)
(***************************************************************************)
NegatedTested ==
    {<<Identifier("x")>>, <<Identifier("z")>>,
     <<Identifier("x"), T_Slash, Identifier("y")>>}

NegatedBounds ==
    {<<IntegerLiteral(1)>>, <<IntegerLiteral(2)>>, <<StringLiteral(Str_a)>>,
     <<T_Null>>, <<Identifier("y")>>, <<T_Minus, StringLiteral(Str_a)>>}

NegatedElements ==
    {IntegerLiteral(1), IntegerLiteral(2), FloatLiteral(F(3, 2)),
     StringLiteral(Str_a), T_Null}

NegatedTails ==
    {<<T_Like, p>> \o escape :
        p \in {StringLiteral(Str_a), StringLiteral(<<Percent>>), IntegerLiteral(1)},
        escape \in {<<>>, <<T_Escape, StringLiteral(Str_b)>>, <<T_Escape>>}}
    \union
    {<<T_Between>> \o lower \o <<T_And>> \o upper :
        lower \in NegatedBounds, upper \in NegatedBounds}
    \union
    {<<T_In, T_LeftParen>> \o CommaSeparated([i \in DOMAIN es |-> <<es[i]>>])
     \o <<T_RightParen>> : es \in SeqsUpTo(NegatedElements, 2)}

NegatedInputs ==
    {e \o negation \o tail :
        e \in NegatedTested, negation \in {<<>>, <<T_Not>>}, tail \in NegatedTails}

NegatedMaps ==
    {[x |-> vx, y |-> vy] :
        vx \in {Integer(1), Integer(4), String(Str_a), Null},
        vy \in {Integer(0), Integer(2)}}

InitNegated ==
    /\ \E input \in NegatedInputs : tokens = Append(input, Eof)
    /\ value_map \in NegatedMaps
    /\ parse_result = NotParsed
    /\ eval_result = NotEvaluated
    /\ rendered = NotRendered

SpecNegated == InitNegated /\ [][Next]_vars

(***************************************************************************)
(* The grammar of the specification, as a recogniser over a span i..j of   *)
(* a token sequence ts (no Eof).  It is what the claims are stated         *)
(* against; nothing of the parser is used in it.                           *)
(*   BooleanExpr := OrExpr;  OrExpr := AndExpr (OR AndExpr)... ;            *)
(*   AndExpr := Term (AND Term)... ;                                       *)
(*   Term := NOT Term | '(' BooleanExpr ')' | TRUE | FALSE | Identifier    *)
(*         | RelationalExpr;                                               *)
(*   RelationalExpr := ValueExpr followed by one relational tail;          *)
(*   ValueExpr := AddExpr; AddExpr := MultExpr ((+|-) MultExpr)... ;       *)
(*   MultExpr := UnaryExpr ((star|slash|percent) UnaryExpr)... ;           *)
(*   UnaryExpr := (+|-) UnaryExpr | Primary;                               *)
(*   Primary := literal | identifier | '(' ValueExpr ')'.                  *)
(***************************************************************************)
LiteralKinds ==
    {"IntegerLiteral", "FloatLiteral", "StringLiteral", "Null", "True", "False"}
RelationalOps ==
    {"Equal", "NotEqual", "GreaterThan", "GreaterOrEqual", "LessThan", "LessOrEqual"}

RECURSIVE G_Value(_, _, _)
RECURSIVE G_Add(_, _, _)
RECURSIVE G_Mult(_, _, _)
RECURSIVE G_Unary(_, _, _)
RECURSIVE G_Primary(_, _, _)

G_Primary(ts, i, j) ==
    /\ i <= j
    /\ \/ i = j /\ ts[i].k \in LiteralKinds \union {"Identifier"}
       \/ /\ i < j
          /\ ts[i] = T_LeftParen
          /\ ts[j] = T_RightParen
          /\ G_Value(ts, i + 1, j - 1)

G_Unary(ts, i, j) ==
    /\ i <= j
    /\ \/ ts[i].k \in {"Plus", "Minus"} /\ G_Unary(ts, i + 1, j)
       \/ G_Primary(ts, i, j)

G_Mult(ts, i, j) ==
    /\ i <= j
    /\ \/ G_Unary(ts, i, j)
       \/ \E k \in (i + 1)..(j - 1) :
            /\ ts[k].k \in {"Star", "Slash", "Percent"}
            /\ G_Mult(ts, i, k - 1)
            /\ G_Unary(ts, k + 1, j)

G_Add(ts, i, j) ==
    /\ i <= j
    /\ \/ G_Mult(ts, i, j)
       \/ \E k \in (i + 1)..(j - 1) :
            /\ ts[k].k \in {"Plus", "Minus"}
            /\ G_Add(ts, i, k - 1)
            /\ G_Mult(ts, k + 1, j)

G_Value(ts, i, j) == G_Add(ts, i, j)

\* Static rules of BETWEEN bounds: a bound is a literal, or a numeric literal
\* under one unary sign; not NULL, not Boolean; both bounds numeric or both
\* String; lower <= upper.
G_IsBound(ts, i, j) ==
    \/ i = j /\ ts[i].k \in {"IntegerLiteral", "FloatLiteral", "StringLiteral"}
    \/ /\ j = i + 1
       /\ ts[i].k \in {"Plus", "Minus"}
       /\ ts[j].k \in {"IntegerLiteral", "FloatLiteral"}

G_BoundIsString(ts, i, j) == ts[j].k = "StringLiteral"

\* the number a numeric bound denotes, as a rational
G_BoundNumber(ts, i, j) ==
    LET magnitude == IF ts[j].k = "IntegerLiteral"
                     THEN <<ts[j].lit.i, 1>> ELSE ts[j].lit.f
    IN  IF i < j /\ ts[i].k = "Minus" THEN <<-magnitude[1], magnitude[2]>>
        ELSE magnitude

\* both bounds numeric or both String
G_BoundsCompatible(ts, i, m, j) ==
    G_BoundIsString(ts, i, m - 1) = G_BoundIsString(ts, m + 1, j)

\* lower <= upper: rationals for numbers, lexicographic for strings
G_BoundsOrdered(ts, i, m, j) ==
    IF G_BoundIsString(ts, i, m - 1)
    THEN StrLe(ts[m - 1].lit.s, ts[j].lit.s)
    ELSE LET lo == G_BoundNumber(ts, i, m - 1)
             hi == G_BoundNumber(ts, m + 1, j)
         IN  lo[1] * hi[2] <= hi[1] * lo[2]

G_BoundsStatic(ts, i, m, j) ==
    /\ G_IsBound(ts, i, m - 1)
    /\ G_IsBound(ts, m + 1, j)
    /\ G_BoundsCompatible(ts, i, m, j)
    /\ G_BoundsOrdered(ts, i, m, j)

\* Static rules of an IN list i..j: literal (, literal)*, Integer, Float or
\* String only, all of one kind
G_InListStatic(ts, i, j) ==
    /\ i <= j
    /\ (j - i) % 2 = 0
    /\ \A k \in i..j :
          IF (k - i) % 2 = 0
          THEN /\ ts[k].k \in {"IntegerLiteral", "FloatLiteral", "StringLiteral"}
               /\ ts[k].k = ts[i].k
          ELSE ts[k] = T_Comma

\* one relational tail on k..j
G_RelTail(ts, k, j) ==
    /\ k <= j
    /\ LET n == IF ts[k] = T_Not THEN k + 1 ELSE k
       IN  \/ ts[k].k \in RelationalOps /\ G_Value(ts, k + 1, j)
           \/ /\ n <= j
              /\ ts[n] = T_Like
              /\ \/ j = n + 1 /\ ts[j].k = "StringLiteral"
                 \/ /\ j = n + 3
                    /\ ts[n + 1].k = "StringLiteral"
                    /\ ts[n + 2] = T_Escape
                    /\ ts[j].k = "StringLiteral"
           \/ /\ n <= j
              /\ ts[n] = T_Between
              /\ \E m \in (n + 2)..(j - 1) :
                    /\ ts[m] = T_And
                    /\ G_Value(ts, n + 1, m - 1)
                    /\ G_Value(ts, m + 1, j)
                    /\ G_BoundsStatic(ts, n + 1, m, j)
           \/ /\ n + 1 < j
              /\ ts[n] = T_In
              /\ ts[n + 1] = T_LeftParen
              /\ ts[j] = T_RightParen
              /\ G_InListStatic(ts, n + 2, j - 1)
           \/ /\ ts[k] = T_Is
              /\ \/ j = k + 1 /\ ts[j] = T_Null
                 \/ j = k + 2 /\ ts[k + 1] = T_Not /\ ts[j] = T_Null

G_Relational(ts, i, j) ==
    \E k \in (i + 1)..j : G_Value(ts, i, k - 1) /\ G_RelTail(ts, k, j)

RECURSIVE G_Boolean(_, _, _)
RECURSIVE G_Or(_, _, _)
RECURSIVE G_And(_, _, _)
RECURSIVE G_Term(_, _, _)

G_Term(ts, i, j) ==
    /\ i <= j
    /\ \/ ts[i] = T_Not /\ G_Term(ts, i + 1, j)
       \/ /\ i < j
          /\ ts[i] = T_LeftParen
          /\ ts[j] = T_RightParen
          /\ G_Boolean(ts, i + 1, j - 1)
       \/ i = j /\ ts[i].k \in {"True", "False", "Identifier"}
       \/ G_Relational(ts, i, j)

G_And(ts, i, j) ==
    /\ i <= j
    /\ \/ G_Term(ts, i, j)
       \/ \E k \in (i + 1)..(j - 1) :
            ts[k] = T_And /\ G_And(ts, i, k - 1) /\ G_Term(ts, k + 1, j)

G_Or(ts, i, j) ==
    /\ i <= j
    /\ \/ G_And(ts, i, j)
       \/ \E k \in (i + 1)..(j - 1) :
            ts[k] = T_Or /\ G_Or(ts, i, k - 1) /\ G_And(ts, k + 1, j)

G_Boolean(ts, i, j) == G_Or(ts, i, j)

\* the input without its closing Eof
Body(toks) == SubSeq(toks, 1, Len(toks) - 1)

\* the whole input is a value expression / a boolean expression of the grammar
IsValueInput(toks) == G_Value(Body(toks), 1, Len(toks) - 1)
IsBooleanInput(toks) == G_Boolean(Body(toks), 1, Len(toks) - 1)

\* an identifier, TRUE or FALSE inside any number of parentheses
RECURSIVE G_ParenAtom(_, _, _)
G_ParenAtom(ts, i, j) ==
    /\ i <= j
    /\ \/ i = j /\ ts[i].k \in {"Identifier", "True", "False"}
       \/ /\ i < j
          /\ ts[i] = T_LeftParen
          /\ ts[j] = T_RightParen
          /\ G_ParenAtom(ts, i + 1, j - 1)

IsParenAtomInput(toks) == G_ParenAtom(Body(toks), 1, Len(toks) - 1)

\* the atom of such an input, as the boolean term it denotes
RECURSIVE AtomTerm(_, _)
AtomTerm(ts, i) ==
    CASE ts[i].k = "Identifier" -> BoolVariable(ts[i].name)
      [] ts[i].k = "True" -> BoolLiteral(TRUE)
      [] ts[i].k = "False" -> BoolLiteral(FALSE)
      [] OTHER -> AtomTerm(ts, i + 1)

(***************************************************************************)
(* Claims                                                                  *)
(***************************************************************************)
ParseOk == parse_result.called /\ parse_result.res.ok
ParseErr == parse_result.called /\ ~parse_result.res.ok

\* C1 as stated: parse rejects every input that is only a value expression;
\* the one value-shaped input it accepts is a single identifier, which
\* becomes a boolean variable reference.
C1_OnlyIdentifierAccepted ==
    parse_result.called /\ IsValueInput(tokens) =>
        IF Len(tokens) = 2 /\ tokens[1].k = "Identifier"
        THEN parse_result.res.ok
             /\ parse_result.res.val = BoolVariable(tokens[1].name)
        ELSE ~parse_result.res.ok

\* C1 amended: parse rejects every input that is only a value expression,
\* except an identifier, TRUE or FALSE, bare or inside parentheses, which it
\* accepts as that boolean variable reference or boolean literal.
C1_ValueInputRejected ==
    parse_result.called /\ IsValueInput(tokens) =>
        IF IsParenAtomInput(tokens)
        THEN parse_result.res.ok
             /\ parse_result.res.val = AtomTerm(tokens, 1)
        ELSE ~parse_result.res.ok

\* C1 witness: the parenthesized arithmetic expression (x + 1) was rejected
C1_Witness ==
    /\ tokens = <<T_LeftParen, Identifier("x"), T_Plus, IntegerLiteral(1),
                  T_RightParen, Eof>>
    /\ ParseErr

\* C2 as stated: parse returns Ok for every token sequence derivable from
\* BooleanExpr in the grammar whose BETWEEN / IN / LIKE operands satisfy the
\* static rules.
C2_GrammarInputAccepted ==
    parse_result.called /\ IsBooleanInput(tokens) => parse_result.res.ok

\* C4: parse returns Ok only with the cursor on the closing Eof, the last
\* token of the vector; when the boolean expression parsed from position 0
\* stops before it, parse returns Err and no AST.
C4_WholeInputConsumed ==
    parse_result.called =>
        /\ parse_result.res.ok =>
              /\ parse_result.res.pos = Len(tokens) - 1
              /\ tokens[parse_result.res.pos + 1] = Eof
              /\ parse_result.res.val # NoNode
        /\ LET expr == parse_boolean_expression(tokens, 0)
           IN  expr.ok /\ expr.pos < Len(tokens) - 1 =>
                  ~parse_result.res.ok /\ parse_result.res.val = NoNode

\* C4 witness: x = 1 = 1 leaves tokens after a complete expression and was
\* rejected
C4_Witness ==
    /\ tokens = <<Identifier("x"), T_Equal, IntegerLiteral(1), T_Equal,
                  IntegerLiteral(1), Eof>>
    /\ ParseErr
    /\ parse_result.res.err.desc = "Unexpected token"

\* the positions of the AND and OR tokens of an input
OperatorPositions(toks) == {i \in 1..Len(toks) : toks[i].k \in {"And", "Or"}}

\* the input splits as term, token a, term, token b, term at positions i < j
SplitsAt(toks, i, j, a, b) ==
    /\ i < j
    /\ toks[i] = a
    /\ toks[j] = b
    /\ TermOf(SubSeq(toks, 1, i - 1)).ok
    /\ TermOf(SubSeq(toks, i + 1, j - 1)).ok
    /\ TermOf(SubSeq(toks, j + 1, Len(toks) - 1)).ok

\* the truth value of a boolean literal node
LiteralTruth(t) == t.b

\* C3: AND binds tighter than OR.  t1 OR t2 AND t3 parses to
\* Or(t1, And(t2, t3)) and t1 AND t2 OR t3 to Or(And(t1, t2), t3); when the
\* three terms are boolean literals, evaluate returns the value of that
\* grouping, so TRUE OR FALSE AND FALSE is true.
C3_AndBindsTighter ==
    \A i \in OperatorPositions(tokens), j \in OperatorPositions(tokens) :
       LET t1 == TermOf(SubSeq(tokens, 1, i - 1)).val
           t2 == TermOf(SubSeq(tokens, i + 1, j - 1)).val
           t3 == TermOf(SubSeq(tokens, j + 1, Len(tokens) - 1)).val
           literals == /\ t1.node = "BoolLiteral"
                       /\ t2.node = "BoolLiteral"
                       /\ t3.node = "BoolLiteral"
       IN  /\ SplitsAt(tokens, i, j, T_Or, T_And) =>
              /\ parse_result.called =>
                    /\ parse_result.res.ok
                    /\ parse_result.res.val = Or(t1, And(t2, t3))
              /\ eval_result.called /\ literals =>
                    /\ eval_result.res.ok
                    /\ eval_result.res.b =
                          (LiteralTruth(t1) \/ (LiteralTruth(t2) /\ LiteralTruth(t3)))
           /\ SplitsAt(tokens, i, j, T_And, T_Or) =>
              /\ parse_result.called =>
                    /\ parse_result.res.ok
                    /\ parse_result.res.val = Or(And(t1, t2), t3)
              /\ eval_result.called /\ literals =>
                    /\ eval_result.res.ok
                    /\ eval_result.res.b =
                          ((LiteralTruth(t1) /\ LiteralTruth(t2)) \/ LiteralTruth(t3))

\* C3 witness: TRUE OR FALSE AND FALSE was parsed to Or(TRUE, And(FALSE,
\* FALSE)) and evaluated to true
C3_Witness ==
    /\ tokens = <<T_True, T_Or, T_False, T_And, T_False, Eof>>
    /\ ParseOk
    /\ parse_result.res.val =
          Or(BoolLiteral(TRUE), And(BoolLiteral(FALSE), BoolLiteral(FALSE)))
    /\ eval_result.called
    /\ eval_result.res.ok
    /\ eval_result.res.b = TRUE

\* the input is x [NOT] BETWEEN ... AND ... with one AND token
BetweenPos(toks) == IF toks[2] = T_Not THEN 3 ELSE 2
AndPos(toks) == CHOOSE m \in 1..Len(toks) : toks[m] = T_And
IsBetweenInput(toks) ==
    /\ Len(toks) >= 6
    /\ toks[1].k = "Identifier"
    /\ toks[BetweenPos(toks)] = T_Between
    /\ Cardinality({m \in 1..Len(toks) : toks[m] = T_And}) = 1
    /\ BetweenPos(toks) + 1 < AndPos(toks)
    /\ AndPos(toks) < Len(toks) - 1

\* the token spans of the two bounds
LowerFirst(toks) == BetweenPos(toks) + 1
LowerLast(toks) == AndPos(toks) - 1
UpperFirst(toks) == AndPos(toks) + 1
UpperLast(toks) == Len(toks) - 1

\* a bare literal, or a literal under exactly one unary sign
IsLiteralShaped(toks, i, j) ==
    \/ i = j /\ toks[i].k \in LiteralKinds
    \/ /\ j = i + 1
       /\ toks[i].k \in {"Plus", "Minus"}
       /\ toks[j].k \in LiteralKinds

\* the value expression a literal-shaped bound denotes
BoundExpr(toks, i, j) ==
    IF i = j THEN Literal(toks[j].lit)
    ELSE IF toks[i] = T_Minus THEN UnaryMinus(Literal(toks[j].lit))
    ELSE UnaryPlus(Literal(toks[j].lit))

\* C5: with bounds that are literals of compatible types, x [NOT] BETWEEN lo
\* AND hi parses iff lo <= hi, numerically with Integer/Float coercion and
\* lexicographically for strings; equal bounds are accepted.
C5_BoundsOrdered ==
    parse_result.called /\ IsBetweenInput(tokens) =>
        LET m == AndPos(tokens)
            i == LowerFirst(tokens)
            j == UpperLast(tokens)
        IN  /\ G_IsBound(tokens, i, m - 1)
            /\ G_IsBound(tokens, m + 1, j)
            /\ G_BoundsCompatible(tokens, i, m, j)
            => /\ parse_result.res.ok <=> G_BoundsOrdered(tokens, i, m, j)
               /\ parse_result.res.ok =>
                     parse_result.res.val =
                        Relational(Between(Variable(tokens[1].name),
                                           BoundExpr(tokens, i, m - 1),
                                           BoundExpr(tokens, m + 1, j),
                                           tokens[2] = T_Not))

\* C5 witness: x BETWEEN 1 AND 1, equal bounds, was accepted
C5_Witness ==
    /\ tokens = <<Identifier("x"), T_Between, IntegerLiteral(1), T_And,
                  IntegerLiteral(1), Eof>>
    /\ ParseOk

\* C6 as stated: a BETWEEN bound is accepted only if it is a bare literal or
\* a literal under exactly one unary sign; a variable, a binary expression,
\* a doubly signed literal and anything wrapped in parentheses is a parse
\* error.
C6_BoundIsLiteral ==
    parse_result.called /\ IsBetweenInput(tokens) /\ parse_result.res.ok =>
        /\ IsLiteralShaped(tokens, LowerFirst(tokens), LowerLast(tokens))
        /\ IsLiteralShaped(tokens, UpperFirst(tokens), UpperLast(tokens))

\* the kind of the literal of a literal-shaped bound
BoundKind(toks, i, j) == toks[j].k

\* C7: NULL and Boolean bounds are rejected; a numeric bound against a String
\* bound is rejected; Integer and Float bounds in any combination, and two
\* String bounds, are compatible: they are accepted when ordered.
C7_BoundTypes ==
    parse_result.called /\ IsBetweenInput(tokens)
    /\ IsLiteralShaped(tokens, LowerFirst(tokens), LowerLast(tokens))
    /\ IsLiteralShaped(tokens, UpperFirst(tokens), UpperLast(tokens)) =>
        LET m == AndPos(tokens)
            i == LowerFirst(tokens)
            j == UpperLast(tokens)
            lo == BoundKind(tokens, i, m - 1)
            hi == BoundKind(tokens, m + 1, j)
            numeric == {"IntegerLiteral", "FloatLiteral"}
        IN  /\ lo \in {"Null", "True", "False"} => ~parse_result.res.ok
            /\ hi \in {"Null", "True", "False"} => ~parse_result.res.ok
            /\ lo \in numeric /\ hi = "StringLiteral" => ~parse_result.res.ok
            /\ lo = "StringLiteral" /\ hi \in numeric => ~parse_result.res.ok
            /\ /\ \/ lo \in numeric /\ hi \in numeric
                  \/ lo = "StringLiteral" /\ hi = "StringLiteral"
               /\ G_IsBound(tokens, i, m - 1)
               /\ G_IsBound(tokens, m + 1, j)
               /\ G_BoundsOrdered(tokens, i, m, j)
               => parse_result.res.ok

\* C7 witness: x BETWEEN 1 AND 'a' was rejected for its bound types
C7_Witness ==
    /\ tokens = <<Identifier("x"), T_Between, IntegerLiteral(1), T_And,
                  StringLiteral(Str_a), Eof>>
    /\ ParseErr
    /\ parse_result.res.err.desc =
          "BETWEEN bounds must be both numeric or both string"

\* the In nodes of a boolean expression
RECURSIVE InNodes(_)
InNodes(ast) ==
    CASE ast.node \in {"Or", "And"} -> InNodes(ast.left) \union InNodes(ast.right)
      [] ast.node = "Not" -> InNodes(ast.expr)
      [] ast.node = "Relational" ->
            IF ast.rel.node = "In" THEN {ast.rel} ELSE {}
      [] OTHER -> {}

\* the IN lists of an input, as the spans between "IN (" and the next ")"
InListSpans(toks) ==
    {span \in (1..Len(toks)) \X (0..Len(toks)) :
        /\ span[1] > 2
        /\ toks[span[1] - 2] = T_In
        /\ toks[span[1] - 1] = T_LeftParen
        /\ span[2] >= span[1] - 1
        /\ span[2] < Len(toks)
        /\ toks[span[2] + 1] = T_RightParen
        /\ \A k \in span[1]..span[2] : toks[k] # T_RightParen}

\* the literal tokens of a span
LiteralsIn(toks, span) ==
    {k \in span[1]..span[2] : toks[k].k \in LiteralKinds}

C8_Accepted ==
    /\ tokens = <<Identifier("x"), T_Not, T_In, T_LeftParen, T_Minus,
                  IntegerLiteral(1), T_Comma, IntegerLiteral(2), T_RightParen, Eof>>
    /\ ParseOk
    /\ parse_result.res.val =
          Relational(In(Variable("x"), <<Integer(-1), Integer(2)>>, TRUE))

\* the node of an AST at a path of field names
RECURSIVE Sub(_, _)
Sub(ast, path) == IF path = <<>> THEN ast ELSE Sub(ast[Head(path)], Tail(path))

IsPrefix(p, q) == Len(p) <= Len(q) /\ SubSeq(q, 1, Len(p)) = p

BooleanNodes == {"Or", "And", "Not", "BoolLiteral", "BoolVariable", "Relational"}

\* the result of the node at a path, evaluated on its own under the bindings
NodeResult(ast, map, path) ==
    LET node == Sub(ast, path)
        self == Evaluator(tokens, ast, map, TRUE)
    IN  IF node.node \in BooleanNodes
        THEN eval_boolean(self, node, path)
        ELSE LET r == eval_value(self, node, path)
             IN  [ok |-> r.ok, b |-> FALSE, err |-> r.err, visited |-> r.visited]

\* the evaluation that was run: evaluate was called and the input parsed
Evaluated ==
    /\ eval_result.called
    /\ parse(tokens).ok

\* C9: And with a false left operand is false, and Or with a true left
\* operand is true, without the right operand being evaluated: no node of
\* the right operand is among the nodes the evaluation visited.
C9_ShortCircuit ==
    Evaluated =>
        LET ast == parse(tokens).val
            visited == eval_result.res.visited
        IN  \A k \in 1..Len(visited) :
               LET p == visited[k]
                   node == Sub(ast, p)
               IN  node.node \in {"And", "Or"} =>
                      LET l == NodeResult(ast, value_map, p \o <<"left">>)
                          r == NodeResult(ast, value_map, p)
                      IN  l.ok /\ l.b = (node.node = "Or") =>
                             /\ r.ok
                             /\ r.b = (node.node = "Or")
                             /\ p = <<>> => eval_result.res.ok
                                            /\ eval_result.res.b = r.b
                             /\ \A m \in 1..Len(visited) :
                                   ~IsPrefix(p \o <<"right">>, visited[m])

\* C9 witness: FALSE AND b with b unbound was evaluated to Ok(false)
C9_Witness ==
    /\ tokens = <<T_False, T_And, Identifier("b"), Eof>>
    /\ value_map = EmptyMap
    /\ eval_result.called
    /\ eval_result.res.ok
    /\ eval_result.res.b = FALSE

\* C10: evaluation is fail-fast.  When it returns an error, that error is
\* the first one met in left-to-right, depth-first order: the nodes that
\* fail are one node and its ancestors, they all fail with the error that is
\* returned, and no node outside that node is evaluated after it.
C10_FailFast ==
    Evaluated /\ ~eval_result.res.ok =>
        LET ast == parse(tokens).val
            visited == eval_result.res.visited
            failing == {k \in 1..Len(visited) :
                           ~NodeResult(ast, value_map, visited[k]).ok}
        IN  /\ failing # {}
            /\ LET first == CHOOSE k \in failing : \A m \in failing : m <= k
               IN  /\ \A k \in failing :
                         /\ IsPrefix(visited[k], visited[first])
                         /\ NodeResult(ast, value_map, visited[k]).err
                               = eval_result.res.err
                   /\ \A k \in (first + 1)..Len(visited) :
                         IsPrefix(visited[first], visited[k])

\* C10 witness: 1 / y = x AND b with nothing bound stopped at y with
\* UnboundVariable(y); neither x nor b was evaluated
C10_Witness ==
    /\ tokens = <<IntegerLiteral(1), T_Slash, Identifier("y"), T_Equal,
                  Identifier("x"), T_And, Identifier("b"), Eof>>
    /\ value_map = EmptyMap
    /\ eval_result.called
    /\ ~eval_result.res.ok
    /\ eval_result.res.err = UnboundVariable("y")
    /\ eval_result.res.visited =
          << <<>>, <<"left">>, <<"left", "rel", "left">>,
             <<"left", "rel", "left", "left">>, <<"left", "rel", "left", "right">> >>

(***************************************************************************)
(* Operators (SpecOperators): the claims read the operands off the parsed  *)
(* expression and compute what the specification says from their values.   *)
(***************************************************************************)
Ast == parse(tokens).val

\* the root of the expression is a relational node of one of the kinds
RootIs(kinds) == Ast.node = "Relational" /\ Ast.rel.node \in kinds

ArithmeticNodes == {"Add", "Subtract", "Multiply", "Divide", "Modulo"}

\* an operand that is a literal or a bound variable, and its value
IsAtom(e) ==
    \/ e.node = "Literal"
    \/ e.node = "Variable" /\ e.name \in DOMAIN value_map
AtomValue(e) == IF e.node = "Literal" THEN e.lit ELSE value_map[e.name]

IsNumeric(v) == v.t \in {"Integer", "Float"}
\* a numeric value as the fraction <<numerator, denominator>>, denominator > 0
Num(v) == IF v.t = "Integer" THEN <<v.i, 1>> ELSE v.f
NumEq(a, b) == Num(a)[1] * Num(b)[2] = Num(b)[1] * Num(a)[2]
NumLe(a, b) == Num(a)[1] * Num(b)[2] <= Num(b)[1] * Num(a)[2]
IsZero(v) == Num(v)[1] = 0

\* the input is `l op r = c`: an arithmetic node of the kind over two numeric
\* atoms, compared for equality with a numeric literal
ArithmeticCase(kind) ==
    /\ Evaluated
    /\ RootIs({"Equality"})
    /\ Ast.rel.op = "Equal"
    /\ Ast.rel.left.node = kind
    /\ IsAtom(Ast.rel.left.left) /\ IsNumeric(AtomValue(Ast.rel.left.left))
    /\ IsAtom(Ast.rel.left.right) /\ IsNumeric(AtomValue(Ast.rel.left.right))
    /\ Ast.rel.right.node = "Literal" /\ IsNumeric(Ast.rel.right.lit)

\* C11: division yields the exact quotient as a Float for every combination
\* of Integer and Float operands with a nonzero divisor: `l / r = c` is true
\* exactly when l = c * r, and the value of l / r is a Float.
C11_DivisionExact ==
    ArithmeticCase("Divide") /\ ~IsZero(AtomValue(Ast.rel.left.right)) =>
        LET l == Num(AtomValue(Ast.rel.left.left))
            r == Num(AtomValue(Ast.rel.left.right))
            c == Num(Ast.rel.right.lit)
            quotient == eval_value(Evaluator(tokens, Ast, value_map, TRUE),
                                   Ast.rel.left, <<"rel", "left">>)
        IN  /\ eval_result.res.ok
            /\ eval_result.res.b = (l[1] * r[2] * c[2] = c[1] * r[1] * l[2])
            /\ quotient.ok /\ quotient.val.t = "Float"

\* C11 witness: x / y = 2.5 with x = 10 and y = 4, both Integers, is true
C11_Witness ==
    /\ tokens = <<Identifier("x"), T_Slash, Identifier("y"), T_Equal,
                  FloatLiteral(F(5, 2)), Eof>>
    /\ value_map = [x |-> Integer(10), y |-> Integer(4)]
    /\ eval_result.called
    /\ eval_result.res.ok /\ eval_result.res.b

\* C12: / and % with non-null numeric operands and a zero divisor (Integer 0
\* or Float 0.0, literal or bound variable) return DivisionByZero, and its
\* expression is the whole input evaluate was given, not the subexpression.
C12_DivisionByZero ==
    /\ ArithmeticCase("Divide") \/ ArithmeticCase("Modulo")
    /\ IsZero(AtomValue(Ast.rel.left.right))
    => /\ ~eval_result.res.ok
       /\ eval_result.res.err.kind = "DivisionByZero"
       /\ eval_result.res.err.expression = tokens

\* C12 witness: x % y = 2 with x = 10 and y = 0.0 returned DivisionByZero
\* carrying the whole input
C12_Witness ==
    /\ tokens = <<Identifier("x"), T_Percent, Identifier("y"), T_Equal,
                  IntegerLiteral(2), Eof>>
    /\ value_map = [x |-> Integer(10), y |-> Float(FZero)]
    /\ eval_result.called
    /\ eval_result.res.err = DivisionByZero(tokens)

\* a variable bound to Null
IsNullVariable(e) ==
    e.node = "Variable" /\ e.name \in DOMAIN value_map /\ value_map[e.name].t = "Null"

\* one operand of the operator is a variable bound to Null and the other
\* operands are literals or bound variables: a comparison of two such
\* operands, an arithmetic or unary operator on them (its result compared
\* with a literal), or LIKE, BETWEEN or IN with that variable tested
NullOperandCase ==
    /\ Evaluated
    /\ \/ /\ RootIs({"Equality", "Comparison"})
          /\ IsAtom(Ast.rel.left) /\ IsAtom(Ast.rel.right)
          /\ IsNullVariable(Ast.rel.left) \/ IsNullVariable(Ast.rel.right)
       \/ /\ RootIs({"Equality"})
          /\ Ast.rel.left.node \in ArithmeticNodes
          /\ IsAtom(Ast.rel.left.left) /\ IsAtom(Ast.rel.left.right)
          /\ IsNullVariable(Ast.rel.left.left) \/ IsNullVariable(Ast.rel.left.right)
       \/ /\ RootIs({"Equality"})
          /\ Ast.rel.left.node \in {"UnaryPlus", "UnaryMinus"}
          /\ IsNullVariable(Ast.rel.left.expr)
       \/ /\ RootIs({"Like", "Between", "In"})
          /\ IsNullVariable(Ast.rel.expr)

C14_NeverErrors ==
    Evaluated /\ RootIs({"IsNull"}) => eval_result.res.ok

\* C14: e IS NULL and e IS NOT NULL add no error of their own.  An error of
\* evaluating e is returned as it is; otherwise the result is Ok(true)
\* exactly when the value of e is Null, inverted for IS NOT NULL.
C14_NullTest ==
    Evaluated /\ RootIs({"IsNull"}) =>
        LET operand == eval_value(Evaluator(tokens, Ast, value_map, TRUE),
                                  Ast.rel.expr, <<"rel", "expr">>)
        IN  IF operand.ok
            THEN /\ eval_result.res.ok
                 /\ eval_result.res.b = ((operand.val.t = "Null") # Ast.rel.negated)
            ELSE /\ ~eval_result.res.ok
                 /\ eval_result.res.err = operand.err

\* C14 witness: x IS NULL with x bound to Null is Ok(true)
C14_Witness ==
    /\ tokens = <<Identifier("x"), T_Is, T_Null, Eof>>
    /\ value_map = [x |-> Null, y |-> Integer(0)]
    /\ eval_result.called
    /\ eval_result.res.ok /\ eval_result.res.b

\* the input compares two operands that are literals or bound variables,
\* neither of them Null, with an operator of the kind
ComparisonCase(kind) ==
    /\ Evaluated
    /\ RootIs({kind})
    /\ IsAtom(Ast.rel.left) /\ AtomValue(Ast.rel.left).t # "Null"
    /\ IsAtom(Ast.rel.right) /\ AtomValue(Ast.rel.right).t # "Null"

\* C15: = and <> on two non-null values.  Integer and Float operands in any
\* combination compare numerically, String with String and Boolean with
\* Boolean by native equality, every other pairing is a TypeError; and <> is
\* the negation of =.
C15_Equality ==
    ComparisonCase("Equality") =>
        LET l == AtomValue(Ast.rel.left)
            r == AtomValue(Ast.rel.right)
            equal == IF IsNumeric(l) THEN NumEq(l, r)
                     ELSE IF l.t = "String" THEN l.s = r.s
                     ELSE l.b = r.b
        IN  IF \/ IsNumeric(l) /\ IsNumeric(r)
               \/ l.t = "String" /\ r.t = "String"
               \/ l.t = "Boolean" /\ r.t = "Boolean"
            THEN /\ eval_result.res.ok
                 /\ eval_result.res.b = (equal = (Ast.rel.op = "Equal"))
            ELSE /\ ~eval_result.res.ok
                 /\ eval_result.res.err.kind = "TypeError"

\* C15 witness: x = y with x the Integer 0 and y the Float 0.0 is true
C15_Witness ==
    /\ tokens = <<Identifier("x"), T_Equal, Identifier("y"), Eof>>
    /\ value_map = [x |-> Integer(0), y |-> Float(FZero)]
    /\ eval_result.called
    /\ eval_result.res.ok /\ eval_result.res.b

\* a is before b, or equal to it, in the lexicographic order of their characters
LexLe(a, b) ==
    \E k \in 0..Len(a) :
        /\ k <= Len(b)
        /\ \A m \in 1..k : a[m] = b[m]
        /\ k = Len(a) \/ (k < Len(b) /\ a[k + 1] < b[k + 1])

\* C16: >, >=, <, <= on two non-null values.  A Boolean operand, also
\* against a Boolean, is a TypeError, and so is a number against a String;
\* two numbers compare numerically in any combination of Integer and Float,
\* two Strings lexicographically.
C16_Ordering ==
    ComparisonCase("Comparison") =>
        LET l == AtomValue(Ast.rel.left)
            r == AtomValue(Ast.rel.right)
            le(a, b) == IF IsNumeric(a) THEN NumLe(a, b) ELSE LexLe(a.s, b.s)
            holds == CASE Ast.rel.op = "GreaterThan" -> ~le(l, r)
                       [] Ast.rel.op = "GreaterOrEqual" -> le(r, l)
                       [] Ast.rel.op = "LessThan" -> ~le(r, l)
                       [] Ast.rel.op = "LessOrEqual" -> le(l, r)
        IN  IF \/ IsNumeric(l) /\ IsNumeric(r)
               \/ l.t = "String" /\ r.t = "String"
            THEN /\ eval_result.res.ok
                 /\ eval_result.res.b = holds
            ELSE /\ ~eval_result.res.ok
                 /\ eval_result.res.err.kind = "TypeError"

\* C16 witness: x >= y with both bound to Booleans returned a TypeError
C16_Witness ==
    /\ tokens = <<Identifier("x"), T_GreaterOrEqual, Identifier("y"), Eof>>
    /\ value_map = [x |-> Boolean(TRUE), y |-> Boolean(TRUE)]
    /\ eval_result.called
    /\ eval_result.res.err.kind = "TypeError"

(***************************************************************************)
(* LIKE (SpecLike)                                                         *)
(***************************************************************************)
\* the whole of s matches the pattern p under the rules of SQL LIKE, with
\* the escape character esc[1] when esc is not empty
RECURSIVE LikeMatches(_, _, _)
LikeMatches(s, p, esc) ==
    IF p = <<>> THEN s = <<>>
    ELSE IF esc # <<>> /\ p[1] = esc[1]
    THEN /\ Len(p) >= 2
         /\ s # <<>> /\ s[1] = p[2]
         /\ LikeMatches(Tail(s), Tail(Tail(p)), esc)
    ELSE IF p[1] = Percent
    THEN \E k \in 0..Len(s) : LikeMatches(SubSeq(s, k + 1, Len(s)), Tail(p), esc)
    ELSE IF p[1] = Underscore
    THEN s # <<>> /\ LikeMatches(Tail(s), Tail(p), esc)
    ELSE s # <<>> /\ s[1] = p[1] /\ LikeMatches(Tail(s), Tail(p), esc)

\* every escape character of the pattern has a character after it
RECURSIVE EscapesComplete(_, _)
EscapesComplete(p, esc) ==
    IF p = <<>> \/ esc = <<>> THEN TRUE
    ELSE IF p[1] = esc[1] THEN Len(p) >= 2 /\ EscapesComplete(Tail(Tail(p)), esc)
    ELSE EscapesComplete(Tail(p), esc)

\* the escape character of a LIKE node: the first character of its ESCAPE string
EscapeChar(rel) ==
    IF rel.escape = <<>> \/ rel.escape[1] = <<>> THEN <<>> ELSE <<rel.escape[1][1]>>

\* C17: for every String value s and every pattern p, s LIKE p is true
\* exactly when the whole of s matches p: % matches any sequence of
\* characters, of any characters, _ matches exactly one character, the
\* escape character makes the next pattern character literal, every other
\* pattern character matches itself; NOT LIKE is the negation.
C17_LikeMatches ==
    /\ Evaluated
    /\ RootIs({"Like"})
    /\ IsAtom(Ast.rel.expr) /\ AtomValue(Ast.rel.expr).t = "String"
    /\ EscapesComplete(Ast.rel.pattern, EscapeChar(Ast.rel))
    => /\ eval_result.res.ok
       /\ eval_result.res.b =
             (LikeMatches(AtomValue(Ast.rel.expr).s, Ast.rel.pattern,
                          EscapeChar(Ast.rel)) # Ast.rel.negated)

(***************************************************************************)
(* IN and BETWEEN (SpecMembership)                                         *)
(***************************************************************************)
\* the tested operand is a literal or a bound variable whose value is not Null
TestedCase(kind) ==
    /\ Evaluated
    /\ RootIs({kind})
    /\ IsAtom(Ast.rel.expr) /\ AtomValue(Ast.rel.expr).t # "Null"

\* the name a type goes by in a TypeError
TypeNameOf(v) ==
    CASE v.t = "Integer" -> "integer"
      [] v.t = "Float" -> "float"
      [] v.t = "String" -> "string"
      [] v.t = "Boolean" -> "boolean"
      [] v.t = "Null" -> "NULL"

\* equality of two values of compatible types, an Integer against a Float
\* through its conversion
SameValue(a, b) ==
    IF IsNumeric(a) /\ IsNumeric(b) THEN NumEq(a, b)
    ELSE a.t = b.t /\ a = b

\* C18: IN and NOT IN with a non-null tested value.  If its type is not
\* that of the first list element (Integer and Float count as one) the
\* result is a TypeError of operation IN that expects the first element's
\* type; otherwise it is true exactly when some element equals the tested
\* value, an Integer equal to a Float of the same number, and NOT IN is the
\* negation.
C18_Membership ==
    TestedCase("In") =>
        LET v == AtomValue(Ast.rel.expr)
            values == Ast.rel.values
            first == values[1]
        IN  IF v.t = first.t \/ (IsNumeric(v) /\ IsNumeric(first))
            THEN /\ eval_result.res.ok
                 /\ eval_result.res.b =
                       ((\E k \in 1..Len(values) : SameValue(v, values[k]))
                        # Ast.rel.negated)
            ELSE /\ ~eval_result.res.ok
                 /\ eval_result.res.err.kind = "TypeError"
                 /\ eval_result.res.err.operation = "IN"
                 /\ eval_result.res.err.expected = TypeNameOf(first)

\* C18 witness: x IN (6, 7, 8) with x the Float 8.0 is true
C18_Witness ==
    /\ tokens = <<Identifier("x"), T_In, T_LeftParen, IntegerLiteral(6), T_Comma,
                  IntegerLiteral(7), T_Comma, IntegerLiteral(8), T_RightParen, Eof>>
    /\ value_map = [x |-> Float(F(8, 1))]
    /\ eval_result.called
    /\ eval_result.res.ok /\ eval_result.res.b

\* C19: BETWEEN and NOT BETWEEN with a non-null tested value v and bounds
\* lo and hi.  Three Integers, three Floats or three Strings compare
\* directly, lo <= v and v <= hi with both ends included; any other three
\* numbers compare as Floats; a value that is not a number among numbers (or
\* a number among Strings) is a TypeError.  NOT BETWEEN is the negation.
C19_Range ==
    TestedCase("Between")
    /\ Ast.rel.lower.node = "Literal" /\ Ast.rel.upper.node = "Literal" =>
        LET v == AtomValue(Ast.rel.expr)
            lo == Ast.rel.lower.lit
            hi == Ast.rel.upper.lit
            le(a, b) == IF IsNumeric(a) THEN NumLe(a, b) ELSE LexLe(a.s, b.s)
        IN  IF \/ IsNumeric(v) /\ IsNumeric(lo) /\ IsNumeric(hi)
               \/ v.t = "String" /\ lo.t = "String" /\ hi.t = "String"
            THEN /\ eval_result.res.ok
                 /\ eval_result.res.b = ((le(lo, v) /\ le(v, hi)) # Ast.rel.negated)
            ELSE /\ ~eval_result.res.ok
                 /\ eval_result.res.err.kind = "TypeError"

\* C19 witness: x BETWEEN 6 AND 8 with x the Integer 8, the upper end, is true
C19_Witness ==
    /\ tokens = <<Identifier("x"), T_Between, IntegerLiteral(6), T_And,
                  IntegerLiteral(8), Eof>>
    /\ value_map = [x |-> Integer(8)]
    /\ eval_result.called
    /\ eval_result.res.ok /\ eval_result.res.b

(***************************************************************************)
(* Integer arithmetic at the ends of the range (SpecOverflow)              *)
(***************************************************************************)
\* C20: parse and evaluate return a value, Ok or Err, for every input and
\* every map of bindings, and never panic: also for x % y with x = i64::MIN
\* and y = -1, x + 1 and x * 2 with x = i64::MAX, and -x with x = i64::MIN.
C20_NeverPanics ==
    /\ parse_result.called =>
          parse_result.res.ok \/ parse_result.res.err.desc # ""
    /\ eval_result.called =>
          eval_result.res.ok \/ eval_result.res.err.kind # "panic"

\* n reduced modulo 2^IntBits into the range of the integer type
Modulo2w(n) ==
    CHOOSE m \in I64_MIN..I64_MAX : (n - m) % (2 ^ IntBits) = 0

\* the mathematical result of an Add, Subtract or Multiply node on Integers
ExactResult(e) ==
    LET a == AtomValue(e.left).i
        b == AtomValue(e.right).i
    IN  CASE e.node = "Add" -> a + b
          [] e.node = "Subtract" -> a - b
          [] e.node = "Multiply" -> a * b

\* the input is e = 0 with e an Add, Subtract or Multiply of two Integers
IntegerArithmeticCase ==
    /\ Evaluated
    /\ RootIs({"Equality"})
    /\ Ast.rel.left.node \in {"Add", "Subtract", "Multiply"}
    /\ IsAtom(Ast.rel.left.left) /\ AtomValue(Ast.rel.left.left).t = "Integer"
    /\ IsAtom(Ast.rel.left.right) /\ AtomValue(Ast.rel.left.right).t = "Integer"

\* C24: +, - and * on two Integers return the Integer that is the
\* mathematical result reduced modulo 2^64 into the range of the type:
\* overflow wraps silently and is never an error (nor a Float).
C24_Wraps ==
    IntegerArithmeticCase
    => /\ eval_result.res.ok
       /\ eval_result.res.b = (Modulo2w(ExactResult(Ast.rel.left)) = 0)

(***************************************************************************)
(* Display (SpecDisplay)                                                   *)
(***************************************************************************)
\* C21: for every AST t that parse returns, parse(t.to_string()) succeeds
\* and returns an AST equal to t.
C21_RoundTrip ==
    rendered.called
    => /\ rendered.res.ok
       /\ rendered.res.val = parse_result.res.val

(***************************************************************************)
(* IN lists of mixed types at evaluation (SpecMembership)                  *)
(***************************************************************************)
\* the input is an IN test whose list holds literals of more than one type
MixedInList ==
    /\ \E i \in DOMAIN tokens : tokens[i] = T_In
    /\ \E i, j \in DOMAIN tokens :
          /\ tokens[i].k \in {"IntegerLiteral", "FloatLiteral", "StringLiteral"}
          /\ tokens[j].k \in {"IntegerLiteral", "FloatLiteral", "StringLiteral"}
          /\ tokens[i].k # tokens[j].k

\* the input x IN (6, 7.0, 8) with x bound to the Integer 8
MixedNumericExample ==
    /\ tokens = <<Identifier("x"), T_In, T_LeftParen, IntegerLiteral(6), T_Comma,
                  FloatLiteral(F(7, 1)), T_Comma, IntegerLiteral(8), T_RightParen,
                  Eof>>
    /\ value_map = [x |-> Integer(8)]
    /\ eval_result.called

TermStart == IF tokens[1] = T_Not THEN 1 ELSE 0

\* the trial of the Token::LeftParen arm: a boolean expression after the '('
Trial == parse_boolean_expression(tokens, TermStart + 1)

TrialTaken == Trial.ok /\ current_token(tokens, Trial.pos) = T_RightParen

\* the term parsed as a relational expression from the '(' itself
AsRelational ==
    LET rel == parse_relational_expression(tokens, TermStart)
    IN  IF rel.ok THEN POk(rel.pos, Relational(rel.val)) ELSE rel

\* what the whole parse is when the input is one term, after a NOT or not
WholeOf(val) == IF TermStart = 1 THEN Not(val) ELSE val

\* C23: for a term that starts with '(' the parser consumes the '(' and
\* tries a boolean expression; if that succeeds and the next token is ')',
\* the term is that expression and ends after the ')'; otherwise the term
\* is parsed as a relational expression from the '(' itself, so that
\* nothing the trial consumed stays consumed: (x + y) > 10 is a Comparison
\* whose left operand is Add(x, y), and (x > 5 AND y < 10) is an And.
C23_Backtracking ==
    parse_result.called /\ tokens[TermStart + 1] = T_LeftParen
    => LET term == parse_boolean_term(tokens, TermStart)
       IN  /\ TrialTaken => term = POk(Trial.pos + 1, Trial.val)
           /\ ~TrialTaken => term = AsRelational
           /\ term.ok /\ current_token(tokens, term.pos) = Eof
              => /\ parse_result.res.ok
                 /\ parse_result.res.val = WholeOf(term.val)
                 /\ parse_result.res.pos = Len(tokens) - 1
           /\ ~term.ok => parse_result.res = term
           /\ tokens = <<T_LeftParen, Identifier("x"), T_GreaterThan,
                         IntegerLiteral(5), T_And, Identifier("y"), T_LessThan,
                         IntegerLiteral(10), T_RightParen, Eof>>
              => parse_result.res.val =
                    And(Relational(Comparison(Variable("x"), "GreaterThan",
                                              Literal(Integer(5)))),
                        Relational(Comparison(Variable("y"), "LessThan",
                                              Literal(Integer(10)))))

\* C23 witness: (x + y) > 10, where the trial fails at the ')' after y, has
\* been parsed to a Comparison whose left operand is Add(x, y)
C23_Witness ==
    /\ tokens = <<T_LeftParen, Identifier("x"), T_Plus, Identifier("y"),
                  T_RightParen, T_GreaterThan, IntegerLiteral(10), Eof>>
    /\ ~TrialTaken
    /\ parse_result.called
    /\ parse_result.res.ok
    /\ parse_result.res.val =
          Relational(Comparison(Add(Variable("x"), Variable("y")), "GreaterThan",
                                Literal(Integer(10))))

(***************************************************************************)
(* What a ParseError carries (SpecBetween)                                 *)
(***************************************************************************)
\* C25: every ParseError that parse returns carries a description, the
\* token position and the complete original input, whichever the error
\* site: a BETWEEN bound that is not a literal and a unary minus on a bound
\* that is not numeric included.
C25_ErrorCarriesContext ==
    parse_result.called /\ ~parse_result.res.ok
    => /\ parse_result.res.err.desc # ""
       /\ parse_result.res.err.position >= 0
       /\ parse_result.res.err.with_input

(***************************************************************************)
(* Termination of the recursive descent (SpecParen)                        *)
(***************************************************************************)
\* the grammar alternatives, from the widest to the narrowest
Rank(fn) ==
    CASE fn = "parse_boolean_expression" -> 10
      [] fn = "parse_boolean_or_expression" -> 9
      [] fn = "parse_boolean_and_expression" -> 8
      [] fn = "parse_boolean_term" -> 7
      [] fn = "parse_relational_expression" -> 6
      [] fn = "parse_value_expression" -> 5
      [] fn = "parse_add_expression" -> 4
      [] fn = "parse_mult_expression" -> 3
      [] fn = "parse_unary_value_expression" -> 2
      [] fn = "parse_value_primary" -> 1
      [] fn = "parse_string_list" -> 0

\* call d starts after more tokens than call c, or at the same position
\* with a narrower alternative
Smaller(d, c) ==
    \/ d.pos > c.pos
    \/ d.pos = c.pos /\ Rank(d.fn) < Rank(c.fn)

\* C26: parse terminates on every finite input.  Every call that a parsing
\* function makes, a backtracking retry included, starts after at least one
\* more token than its caller or is a strictly narrower alternative at the
\* same position, and no call starts beyond the end of the token vector;
\* so every chain of calls is finite, and parse has returned Ok or Err.
C26_Terminates ==
    parse_result.called
    => /\ \A c \in Calls(tokens) :
             /\ c.pos \in 0..Len(tokens)
             /\ \A d \in DirectCalls(tokens, c) : Smaller(d, c)
       /\ parse_result.res.ok \/ parse_result.res.err.desc # ""

\* C26 witness: ((x + y)) > 10 has been parsed; both trials fail, and each
\* '(' is retried as a relational expression at its own position
C26_Witness ==
    /\ tokens = <<T_LeftParen, T_LeftParen, Identifier("x"), T_Plus,
                  Identifier("y"), T_RightParen, T_RightParen, T_GreaterThan,
                  IntegerLiteral(10), Eof>>
    /\ parse_result.called /\ parse_result.res.ok
    /\ {Call("parse_boolean_expression", 1), Call("parse_relational_expression", 0),
        Call("parse_boolean_expression", 2), Call("parse_relational_expression", 1)}
       \subseteq Calls(tokens)

(***************************************************************************)
(* The parser's cursor (SpecDisplay)                                       *)
(***************************************************************************)
\* toks ends with Eof and holds no other Eof
ExactlyOneEof(toks) ==
    /\ Len(toks) >= 1
    /\ \A i \in DOMAIN toks : (toks[i] = Eof) = (i = Len(toks))

\* the cursor of every call on toks, at entry and at an Ok return, is within
\* 0..Len(toks); where parse_boolean_term meets a '(' the saved position is
\* at least 1 and the token before it is that '(', and a failed trial is
\* followed by the relational parse at saved_pos - 1
CursorInvariant(toks) ==
    \A c \in Calls(toks) :
        /\ c.pos \in 0..Len(toks)
        /\ Run(toks, c).ok => Run(toks, c).pos \in c.pos..Len(toks)
        /\ c.fn = "parse_boolean_term" /\ current_token(toks, c.pos) = T_LeftParen
           => LET saved_pos == advance(toks, c.pos)
                  trial == parse_boolean_expression(toks, saved_pos)
              IN  /\ saved_pos >= 1
                  /\ toks[(saved_pos - 1) + 1] = T_LeftParen
                  /\ ~(trial.ok /\ current_token(toks, trial.pos) = T_RightParen)
                     => /\ Call("parse_relational_expression", saved_pos - 1)
                              \in DirectCalls(toks, c)
                        /\ saved_pos - 1 = c.pos

\* C27: the token vector ends with exactly one Eof and holds no other; the
\* cursor stays within 0..tokens.len() at every call and return; and when
\* parse_boolean_term backtracks, saved_pos >= 1, tokens[saved_pos - 1] is
\* the '(' it consumed and the cursor is set to saved_pos - 1.  Stated of
\* the input's token vector and of the one tokenize builds from the
\* rendered text.
C27_Cursor ==
    /\ ExactlyOneEof(tokens)
    /\ parse_result.called
       => /\ CursorInvariant(tokens)
          /\ parse_result.res.ok => parse_result.res.pos = Len(tokens) - 1
    /\ rendered.called /\ tokenize(rendered.text).ok
       => /\ ExactlyOneEof(tokenize(rendered.text).val)
          /\ CursorInvariant(tokenize(rendered.text).val)

\* C27 witness: (x + 1) * 2.5 = x has been parsed, with a failed trial and
\* the retry at the '(' at position 0, and its rendered text has been
\* tokenized into a vector that backtracks as well
C27_Witness ==
    /\ tokens = <<T_LeftParen, Identifier("x"), T_Plus, IntegerLiteral(1),
                  T_RightParen, T_Star, FloatLiteral(F(5, 2)), T_Equal,
                  Identifier("x"), Eof>>
    /\ parse_result.called /\ parse_result.res.ok
    /\ Call("parse_relational_expression", 0) \in Calls(tokens)
    /\ rendered.called /\ tokenize(rendered.text).ok
    /\ Call("parse_relational_expression", 0) \in Calls(tokenize(rendered.text).val)

(***************************************************************************)
(* The order of the checks inside a binary node (SpecErrors)               *)
(***************************************************************************)
\* the binary node under test and its path: the arithmetic node of
\* l op r = 1, or the relational node of l op r
TestedNode == IF Ast.rel.left.node \in ArithmeticNodes THEN Ast.rel.left ELSE Ast.rel
TestedPath ==
    IF Ast.rel.left.node \in ArithmeticNodes THEN <<"rel", "left">> ELSE <<"rel">>

Bound(e) == e.name \in DOMAIN value_map

\* the place of a path in the evaluation order, 0 when it was not evaluated
VisitedAt(path) ==
    LET V == eval_result.res.visited
    IN  IF \E i \in DOMAIN V : V[i] = path
        THEN CHOOSE i \in DOMAIN V : V[i] = path
        ELSE 0

\* the operand types the node's operator accepts
TypesFit(node, a, b) ==
    CASE node.node \in ArithmeticNodes -> IsNumeric(a) /\ IsNumeric(b)
      [] node.node = "Equality" ->
            \/ IsNumeric(a) /\ IsNumeric(b)
            \/ a.t = b.t /\ a.t \in {"String", "Boolean"}
      [] node.node = "Comparison" ->
            \/ IsNumeric(a) /\ IsNumeric(b)
            \/ a.t = "String" /\ b.t = "String"

\* C28: in a binary arithmetic, equality or comparison node the left
\* operand is evaluated first, then the right one, then come the null check
\* and the type check, in this order: an error of the left operand wins
\* over one of the right operand, an operand's error wins over
\* NullInOperation, NullInOperation wins over TypeError, and for / and % a
\* TypeError wins over DivisionByZero when the divisor is zero.
C28_ErrorPrecedence ==
    Evaluated /\ RootIs({"Equality", "Comparison"})
    /\ TestedNode.left.node = "Variable" /\ TestedNode.right.node = "Variable"
    => LET l == TestedNode.left
           r == TestedNode.right
           err == eval_result.res.err
           at_left == VisitedAt(TestedPath \o <<"left">>)
           at_right == VisitedAt(TestedPath \o <<"right">>)
       IN  /\ at_left > 0
           /\ IF ~Bound(l)
              THEN /\ err.kind = "UnboundVariable" /\ err.name = l.name
                   /\ at_right = 0
              ELSE /\ at_right > at_left
                   /\ IF ~Bound(r)
                      THEN err.kind = "UnboundVariable" /\ err.name = r.name
                      ELSE IF value_map[l.name].t = "Null" \/ value_map[r.name].t = "Null"
                      THEN err.kind = "NullInOperation"
                      ELSE IF ~TypesFit(TestedNode, value_map[l.name], value_map[r.name])
                      THEN err.kind = "TypeError"
                      ELSE IF /\ TestedNode.node \in {"Divide", "Modulo"}
                              /\ IsZero(value_map[r.name])
                      THEN err.kind = "DivisionByZero"
                      ELSE eval_result.res.ok

\* C28 witness: x / z = 1 with x bound to Null and z unbound has been
\* evaluated to UnboundVariable(z), not NullInOperation
C28_Witness ==
    /\ tokens = <<Identifier("x"), T_Slash, Identifier("z"), T_Equal,
                  IntegerLiteral(1), Eof>>
    /\ value_map["x"] = Null
    /\ eval_result.called
    /\ eval_result.res.err.kind = "UnboundVariable"
    /\ eval_result.res.err.name = "z"

(***************************************************************************)
(* BETWEEN bounds at evaluation (SpecBetween)                              *)
(***************************************************************************)
\* what evaluating a bound of the parsed BETWEEN node returns
BoundValue(bound, side) ==
    eval_value(Evaluator(tokens, Ast, value_map, TRUE), bound, <<"rel", side>>)

\* the bound evaluates to the signed literal that the parser validated
BoundEvaluates(bound, side) ==
    /\ BoundValue(bound, side).ok
    /\ BoundValue(bound, side).val.t \in {"Integer", "Float", "String"}
    /\ BoundValue(bound, side).val = extract_literal(bound).val

\* C29: whenever parse accepts a BETWEEN or NOT BETWEEN, evaluating its
\* lower and its upper bound returns Ok for every map: a non-null Integer,
\* Float or String equal to the signed literal the parser validated, never
\* a TypeError, NullInOperation or UnboundVariable; also for a bound written
\* with a unary + or - in front of a literal of any accepted type.
C29_BoundsEvaluate ==
    parse_result.called /\ parse_result.res.ok /\ RootIs({"Between"})
    => /\ BoundEvaluates(Ast.rel.lower, "lower")
       /\ BoundEvaluates(Ast.rel.upper, "upper")

(***************************************************************************)
(* Negated forms against plain forms (SpecNegated)                         *)
(***************************************************************************)
\* the input is a negated form: a NOT stands before LIKE, BETWEEN or IN
IsNegatedForm == \E i \in DOMAIN tokens : tokens[i] = T_Not

NotAt == CHOOSE i \in DOMAIN tokens : tokens[i] = T_Not

\* the plain form of a negated input: the same tokens without the NOT
PlainTokens ==
    SubSeq(tokens, 1, NotAt - 1) \o SubSeq(tokens, NotAt + 1, Len(tokens))

PlainParse == parse(PlainTokens)
PlainEval == evaluate(PlainTokens, value_map, TRUE)

\* the parse of the negated form is that of the plain form with the flag set
ParseMirrors ==
    /\ parse_result.res.ok = PlainParse.ok
    /\ parse_result.res.ok
       => /\ ~PlainParse.val.rel.negated
          /\ parse_result.res.val.rel.negated
          /\ parse_result.res.val =
                Relational([PlainParse.val.rel EXCEPT !.negated = TRUE])

\* C30 as stated: NOT BETWEEN, NOT IN and NOT LIKE parse exactly when the
\* plain form does, to the same node with negated = true; evaluate of the
\* negated form returns the negation of the plain form's result when that
\* is Ok, and the identical error when it is Err.
C30_IdenticalError ==
    IsNegatedForm
    => /\ parse_result.called => ParseMirrors
       /\ eval_result.called
          => /\ eval_result.res.ok = PlainEval.ok
             /\ eval_result.res.ok => eval_result.res.b = ~PlainEval.b
             /\ ~eval_result.res.ok => eval_result.res.err = PlainEval.err

\* two errors of the same kind that differ at most in the input they quote,
\* in a position one token further on and in the name of the operator
SameFailure(negated, plain) ==
    /\ negated.kind = plain.kind
    /\ negated.name = plain.name
    /\ negated.operation = plain.operation
    /\ negated.expected = plain.expected
    /\ negated.actual = plain.actual
    /\ negated.context = plain.context
    /\ negated.message.with_input = plain.message.with_input
    /\ negated.message.position =
          IF plain.message.position < 0 THEN plain.message.position
          ELSE plain.message.position + 1
    /\ negated.kind \notin {"EvalParseError", "DivisionByZero"} => negated = plain
    /\ negated.kind = "DivisionByZero"
       => negated.expression = tokens /\ plain.expression = PlainTokens

\* C30: NOT BETWEEN, NOT IN and NOT LIKE parse exactly when the plain form
\* does, to the same node with negated = true; evaluate of the negated form
\* returns the negation of the plain form's result when that is Ok, and
\* when it is Err an error of the same kind and fields, except that the
\* text a parse error or a DivisionByZero quotes is that of the negated
\* input.
C30_NegatedMirrorsPlain ==
    IsNegatedForm
    => /\ parse_result.called => ParseMirrors
       /\ eval_result.called
          => /\ eval_result.res.ok = PlainEval.ok
             /\ eval_result.res.ok => eval_result.res.b = ~PlainEval.b
             /\ ~eval_result.res.ok
                => SameFailure(eval_result.res.err, PlainEval.err)

\* C30 witness: x NOT BETWEEN 1 AND 2 with x = 4 has been evaluated to
\* true, the plain form being false
C30_Witness ==
    /\ tokens = <<Identifier("x"), T_Not, T_Between, IntegerLiteral(1), T_And,
                  IntegerLiteral(2), Eof>>
    /\ value_map["x"] = Integer(4)
    /\ parse_result.called /\ parse_result.res.val.rel.negated
    /\ eval_result.called /\ eval_result.res.ok /\ eval_result.res.b
    /\ PlainEval.ok /\ ~PlainEval.b

=============================================================================
